---------------------------- MODULE Spec2Model ----------------------------
(***************************************************************************)
(* Substitute Soccer (src/src/main.rs): the per-frame simulation core.     *)
(*                                                                         *)
(* Numbers.  The program computes in f32 pixels.  The model computes in    *)
(* fixed point: every length, coordinate and speed is an integer number of *)
(* 1/Scale pixels.  Scale = 20 represents every speed constant of the      *)
(* program exactly (2.0, 2.6, 2.75, 2.9, 3.0, 3.3, 11.5, 0.1, 0.2, 4.5)    *)
(* and keeps every squared distance of the level inside TLC's 32-bit       *)
(* integers.  Products are rounded to the nearest unit, symmetrically in   *)
(* sign, where f32 would round to the nearest float.                       *)
(***************************************************************************)
EXTENDS Integers, Sequences, FiniteSets, TLC

\* units of the fixed-point representation per pixel (type Vector, f32 pixels)
Scale == 20

PX(n) == n * Scale
\* a constant given in tenths of a pixel (11.5 is Tenths(115))
Tenths(n) == (n * Scale) \div 10
\* a constant given in hundredths of a pixel (2.75 is Hundredths(275))
Hundredths(n) == (n * Scale) \div 100

Abs(n) == IF n < 0 THEN 0 - n ELSE n
Sgn(n) == IF n < 0 THEN 0 - 1 ELSE IF n > 0 THEN 1 ELSE 0
Min(a, b) == IF a <= b THEN a ELSE b
Max(a, b) == IF a >= b THEN a ELSE b

\* a / b rounded to the nearest integer, halves away from zero (b > 0)
DivR(a, b) == Sgn(a) * ((2 * Abs(a) + b) \div (2 * b))

RECURSIVE SqrtIter(_, _)
SqrtIter(n, g) ==
    LET h == (g + n \div g) \div 2
    IN  IF h >= g THEN g ELSE SqrtIter(n, h)

\* floor of the square root (f32::sqrt, to the unit of the representation)
ISqrt(n) == IF n < 2 THEN n ELSE SqrtIter(n, Min(n, 46340))

---------------------------------------------------------------------------
(* Vectors: euclid::Vector2D<f32, PixelUnit>                               *)

Vec(x, y) == [x |-> x, y |-> y]
VAdd(a, b) == Vec(a.x + b.x, a.y + b.y)
VSub(a, b) == Vec(a.x - b.x, a.y - b.y)
SqLen(v) == v.x * v.x + v.y * v.y
Length(v) == ISqrt(SqLen(v))
Dot(a, b) == a.x * b.x + a.y * b.y

\* v scaled to length len: v.normalize() * len.  The caller guarantees v # 0;
\* the program's 0/0 (NaN) case is modelled where it can occur.  The length of
\* a short v is taken in finer units (1/k), as far as 32 bits allow.
ScaleTo(v, len) ==
    LET q == SqLen(v)
        k == IF q < 32000 THEN 256 ELSE IF q < 8000000 THEN 16 ELSE 1
        l == ISqrt(q * k * k)
    IN  Vec(DivR(v.x * len * k, l), DivR(v.y * len * k, l))

\* Vector2D::with_max_length
with_max_length(v, maxlen) ==
    IF SqLen(v) > maxlen * maxlen THEN ScaleTo(v, maxlen) ELSE v

---------------------------------------------------------------------------
(* Program constants (main.rs lines 46-114), in units of 1/Scale pixel     *)

LEVEL_W == PX(1000)
LEVEL_H == PX(1400)
HALF_LEVEL_W == LEVEL_W \div 2
HALF_LEVEL_H == LEVEL_H \div 2
HALF_PITCH_W == PX(442)
HALF_PITCH_H == PX(622)
GOAL_WIDTH == PX(186)
GOAL_DEPTH == PX(20)
HALF_GOAL_W == GOAL_WIDTH \div 2

\* bound intervals, as <<low, high>>
PITCH_BOUNDS_X == <<HALF_LEVEL_W - HALF_PITCH_W, HALF_LEVEL_W + HALF_PITCH_W>>
PITCH_BOUNDS_Y == <<HALF_LEVEL_H - HALF_PITCH_H, HALF_LEVEL_H + HALF_PITCH_H>>
GOAL_BOUNDS_X == <<HALF_LEVEL_W - HALF_GOAL_W, HALF_LEVEL_W + HALF_GOAL_W>>
GOAL_BOUNDS_Y == <<HALF_LEVEL_H - HALF_PITCH_H - GOAL_DEPTH,
                   HALF_LEVEL_H + HALF_PITCH_H + GOAL_DEPTH>>

on_pitch(x, y) ==
    \/ /\ x >= PITCH_BOUNDS_X[1] /\ x < PITCH_BOUNDS_X[2]
       /\ y >= PITCH_BOUNDS_Y[1] /\ y < PITCH_BOUNDS_Y[2]
    \/ /\ x >= GOAL_BOUNDS_X[1] /\ x < GOAL_BOUNDS_X[2]
       /\ y >= GOAL_BOUNDS_Y[1] /\ y < GOAL_BOUNDS_Y[2]

AI_MIN_X == PX(78)
AI_MAX_X == LEVEL_W - PX(78)
AI_MIN_Y == PX(98)
AI_MAX_Y == LEVEL_H - PX(98)

KICK_STRENGTH == Tenths(115)
\* DRAG = 0.98 = DRAG_NUM / DRAG_DEN
DRAG_NUM == 98
DRAG_DEN == 100

\* template start coordinates, in pixels
PLAYER_START_POS ==
    << <<350, 550>>, <<650, 450>>, <<200, 850>>, <<500, 750>>,
       <<800, 950>>, <<350, 1250>>, <<650, 1150>> >>

LEAD_DISTANCE_1 == PX(10)
LEAD_DISTANCE_2 == PX(50)
DRIBBLE_DIST_X == PX(18)
DRIBBLE_DIST_Y == PX(16)

PLAYER_DEFAULT_SPEED == PX(2)
PLAYER_INTERCEPT_BALL_SPEED == Hundredths(275)
LEAD_PLAYER_BASE_SPEED == Tenths(29)
HUMAN_PLAYER_WITH_BALL_SPEED == PX(3)
HUMAN_PLAYER_WITHOUT_BALL_SPEED == Tenths(33)
MAX_SPEED == PX(10)
GOALS_TO_WIN == 9

---------------------------------------------------------------------------
(* allow_movement: the boundary predicate of player movement               *)

\* the level's edge alone, without the goal band: a variant of allow_movement
allow_movement_no_band(x, y) ==
    IF Abs(x - HALF_LEVEL_W) > HALF_LEVEL_W
    THEN FALSE
    ELSE Abs(y - HALF_LEVEL_H) < HALF_LEVEL_H

\* the level's top and bottom edges allowed: a variant of allow_movement
allow_movement_edges(x, y) ==
    IF Abs(x - HALF_LEVEL_W) > HALF_LEVEL_W
    THEN FALSE
    ELSE IF Abs(x - HALF_LEVEL_W) < HALF_GOAL_W + PX(20)
         THEN Abs(y - HALF_LEVEL_H) < HALF_PITCH_H
         ELSE Abs(y - HALF_LEVEL_H) <= HALF_LEVEL_H

\* allow_movement (lines 919-932)
allow_movement(x, y) ==
    IF Abs(x - HALF_LEVEL_W) > HALF_LEVEL_W
    THEN FALSE
    ELSE IF Abs(x - HALF_LEVEL_W) < HALF_GOAL_W + PX(20)
         THEN Abs(y - HALF_LEVEL_H) < HALF_PITCH_H
         ELSE Abs(y - HALF_LEVEL_H) < HALF_LEVEL_H


---------------------------------------------------------------------------
(* Angle: one of 8 compass octants, 0 = up (towards y = 0), clockwise      *)

\* sin and cos of octant * PI / 4, in units of 1 / TRIG_DEN
TRIG_DEN == 10000
SinTab == <<0, 7071, 10000, 7071, 0, -7071, -10000, -7071>>
CosTab == <<10000, 7071, 0, -7071, -10000, -7071, 0, 7071>>
\* tan(PI / 8) = TAN_PI_8 / TRIG_DEN: the boundary between two octants
TAN_PI_8 == 4142

AngleSin(a) == SinTab[a + 1]
AngleCos(a) == CosTab[a + 1]

\* Angle::to_vec(a) * len
to_vec(a, len) ==
    Vec(DivR(AngleSin(a) * len, TRIG_DEN), DivR((0 - AngleCos(a)) * len, TRIG_DEN))

\* Angle::from_vec: ((4/PI * atan2(v.x, -v.y)) + 8.5) as i32 % 8, the octant
\* nearest to the direction of v.  The zero vector is atan2(+0.0, -0.0) = PI,
\* octant 4.
from_vec(v) ==
    LET u == 0 - v.y
        ax == Abs(v.x)
        au == Abs(u)
        \* 0: within PI/8 of the u axis, 2: within PI/8 of the x axis, 1: between
        cls == IF ax * TRIG_DEN < au * TAN_PI_8 THEN 0
               ELSE IF au * TRIG_DEN > ax * TAN_PI_8 THEN 1 ELSE 2
    IN  IF v.x = 0 /\ v.y = 0 THEN 4
        ELSE IF v.x >= 0 /\ u >= 0 THEN cls
        ELSE IF v.x >= 0 THEN 4 - cls
        ELSE IF u < 0 THEN 4 + cls
        ELSE (8 - cls) % 8

\* the step that turns a facing towards the desired facing, by the difference
\* (desired - current) mod 8
ANGLE_DIFFS == <<0, 1, 1, 1, 1, 7, 7, 7>>

---------------------------------------------------------------------------
(* Small numeric functions                                                 *)

\* avg: snap to b when closer than one pixel, else the midpoint
avg(a, b) == IF Abs(b - a) < PX(1) THEN b ELSE (a + b) \div 2

\* vel * DRAG, truncated towards zero: a velocity decays to 0 and never stalls
Dragged(vel) == Sgn(vel) * ((Abs(vel) * DRAG_NUM) \div DRAG_DEN)

\* a bounce already on reaching a bound, a variant of ball_physics
ball_physics_open(pos, vel, bounds) ==
    LET moved == pos + vel
    IN  IF moved <= bounds[1] \/ moved >= bounds[2]
        THEN <<pos, Dragged(0 - vel)>>
        ELSE <<moved, Dragged(vel)>>

\* ball_physics: one free-flight step on one axis; <<position, velocity>>
ball_physics(pos, vel, bounds) ==
    LET moved == pos + vel
    IN  IF moved < bounds[1] \/ moved > bounds[2]
        THEN <<pos, Dragged(0 - vel)>>
        ELSE <<moved, Dragged(vel)>>

\* DRAG ^ n in units of 1 / POW_DEN, by repeated multiplication
POW_DEN == 1000000

\* the search for the least n with DRAG^n <= arg runs in rounds of ChunkLen
\* iterations, so that no evaluation nests deeper than a round
ChunkLen == 16

RECURSIVE StepsRound(_, _, _, _)
\* at most k more iterations from <<n, p>>: p is DRAG^n in units of 1 / POW_DEN
StepsRound(n, p, arg, k) ==
    IF k = 0 \/ p <= arg THEN <<n, p>>
    ELSE StepsRound(n + 1, (p * DRAG_NUM) \div DRAG_DEN, arg, k - 1)

RECURSIVE StepsFrom(_, _, _)
StepsFrom(n, p, arg) ==
    IF p <= arg THEN n
    ELSE LET r == StepsRound(n, p, arg, ChunkLen) IN StepsFrom(r[1], r[2], arg)

\* the logarithm taken up to and including 574px, a variant of steps
steps_late(distance) ==
    IF distance <= PX(574)
    THEN LET den == KICK_STRENGTH * DRAG_DEN
             num == den - distance * (DRAG_DEN - DRAG_NUM)
             arg == (((num * 1000) \div Scale) * 1000) \div 1150
         IN  StepsFrom(0, POW_DEN, arg)
    ELSE 190

\* steps: ceil(log_DRAG(1 - distance * (1 - DRAG) / KICK_STRENGTH)), the least n
\* with DRAG^n <= 1 - distance * (1 - DRAG) / KICK_STRENGTH, or 190 from 574px
steps(distance) ==
    IF distance < PX(574)
    THEN LET den == KICK_STRENGTH * DRAG_DEN
             num == den - distance * (DRAG_DEN - DRAG_NUM)
             \* num / den in units of 1 / POW_DEN (den = 1150 * Scale)
             arg == (((num * 1000) \div Scale) * 1000) \div 1150
         IN  StepsFrom(0, POW_DEN, arg)
    ELSE 190

\* cmp_dist: compares |v1 - dest| with |v2 - dest|; -1 Less, 0 Equal, 1 Greater
cmp_dist(v1, v2, dest) ==
    LET d1 == SqLen(VSub(v1, dest))
        d2 == SqLen(VSub(v2, dest))
    IN  IF d1 < d2 THEN 0 - 1 ELSE IF d1 > d2 THEN 1 ELSE 0

\* the squared length divided by the square of the weight of cmp_dist_weighted
\* (2 on the side the bias favours), as <<quotient, remainder>>
WeightedSq(v, dest, bias) ==
    LET d == SqLen(VSub(v, dest))
    IN  IF (v.y - dest.y) * bias < 0 THEN <<d \div 4, d % 4>> ELSE <<d, 0>>

cmp_dist_weighted(v1, v2, dest, bias) ==
    LET l1 == WeightedSq(v1, dest, bias)
        l2 == WeightedSq(v2, dest, bias)
    IN  IF l1[1] < l2[1] \/ (l1[1] = l2[1] /\ l1[2] < l2[2]) THEN 0 - 1
        ELSE IF l1 = l2 THEN 0 ELSE 1

---------------------------------------------------------------------------
(* Difficulty presets                                                      *)

get_difficulty(level) ==
    CASE level = "Easy" ->
            [goalie_enabled |-> FALSE, second_lead_enabled |-> FALSE,
             speed_boost |-> 0, holdoff_timer |-> 120]
      [] level = "Medium" ->
            [goalie_enabled |-> FALSE, second_lead_enabled |-> TRUE,
             speed_boost |-> Tenths(1), holdoff_timer |-> 90]
      [] level = "Hard" ->
            [goalie_enabled |-> TRUE, second_lead_enabled |-> TRUE,
             speed_boost |-> Tenths(2), holdoff_timer |-> 60]

DifficultyLevels == {"Easy", "Medium", "Hard"}

---------------------------------------------------------------------------
(* Entities.  hecs::Entity is an index and a generation: World::clear       *)
(* retires every entity, so a reference taken before a reset names no       *)
(* entity after it.  The 14 players are spawned in the order ids[0..13],    *)
(* which is also the order in which every query visits them.                *)

PlayerIds == 0 .. 13
Entity(g, i) == [gen |-> g, idx |-> i]

\* Option<T>: None is the empty sequence, Some(v) the sequence of v
None == << >>
Some(v) == <<v>>
IsSome(o) == o # << >>
Unwrap(o) == o[1]

MarkPlayer(e) == [kind |-> "Player", id |-> e]
MarkGoal(p) == [kind |-> "Goal", pos |-> p]

\* f32 NaN, as a coordinate: the result of normalizing the zero vector
NAN == 0 - 1000000
IsNaN(v) == v.x = NAN \/ v.y = NAN

\* gen_range(-32., 32.): the generator is seeded once, when main starts, so
\* the k-th draw of the n-th construction is a function of the seed.  A
\* pattern is <<seed, n>>; the seeds are a bounded family.
NumSeeds == 2
Jit(pattern, k) ==
    (((pattern[1] * 389 + pattern[2] * 131 + k * 577) * 7) % (2 * PX(32))) - PX(32)

\* a ball built without its Vector component, a variant of build_ball
build_ball_still ==
    [pos |-> Vec(HALF_LEVEL_W, HALF_LEVEL_H), vel |-> None, timer |-> 0]

build_ball ==
    [pos |-> Vec(HALF_LEVEL_W, HALF_LEVEL_H), vel |-> Some(Vec(0, 0)), timer |-> 0]

\* build_player; jx, jy are the two gen_range draws
build_player(x, y, offs, team, jx, jy) ==
    LET hx == x + jx
        hy == y + jy
        start == Vec(hx, hy \div 2 + offs)
    IN  [home |-> Vec(hx, hy), pos |-> start, tpos |-> start,
         tspeed |-> PLAYER_DEFAULT_SPEED, team |-> team, timer |-> 0,
         dir |-> 0, frame |-> 0, lead_dist |-> None, lead_rank |-> None]

\* the other team's first player made active, a variant of ActiveAtKickoff
ActiveAtKickoffSwapped(G) ==
    [t \in 0 .. 1 |-> [G.teams[t] EXCEPT !.active_player = Some(Entity(G.gen, 1 - t))]]

\* the active players after add_players (lines 386-387): ids[0] and ids[1]
ActiveAtKickoff(G) ==
    [t \in 0 .. 1 |-> [G.teams[t] EXCEPT !.active_player = Some(Entity(G.gen, t))]]

\* Game::add_players on a cleared world of generation G.gen
add_players(G, pattern) ==
    LET built(i) ==
            LET t == PLAYER_START_POS[(i \div 2) + 1]
                jx == Jit(pattern, 2 * i)
                jy == Jit(pattern, 2 * i + 1)
            IN  IF i % 2 = 0
                THEN build_player(PX(t[1]), PX(t[2]), PX(550), 0, jx, jy)
                ELSE build_player(LEVEL_W - PX(t[1]), LEVEL_H - PX(t[2]), PX(150), 1, jx, jy)
        kickoff_team == 1 - G.scoring_team
        kick_pos == Vec(HALF_LEVEL_W - PX(30) + kickoff_team * PX(60), HALF_LEVEL_H)
        spawned == [i \in PlayerIds |->
                      [f \in DOMAIN built(i) \cup {"peer", "mark"} |->
                          IF f = "peer" THEN Entity(G.gen, 13 - i)
                          ELSE IF f = "mark" THEN MarkPlayer(Entity(G.gen, 13 - i))
                          ELSE IF f = "pos" /\ i = kickoff_team THEN kick_pos
                          ELSE built(i)[f]]]
    IN  [G EXCEPT !.world = spawned,
                  !.teams = ActiveAtKickoff(G),
                  !.kickoff_player = Some(Entity(G.gen, kickoff_team))]

\* TeamInfo::new
TeamInfo_new(controls) == [controls |-> controls, score |-> 0, active_player |-> None]

\* Game::new(difficulty); the players are jittered by the given pattern
Game_new(difficulty, pattern) ==
    add_players(
        [difficulty |-> difficulty,
         camera_focus |-> Vec(HALF_LEVEL_W, HALF_LEVEL_H),
         world |-> << >>,
         gen |-> 0,
         ball |-> build_ball,
         ball_owner |-> None,
         kickoff_player |-> None,
         teams |-> [t \in 0 .. 1 |-> TeamInfo_new(FALSE)],
         scoring_team |-> 1,
         score_timer |-> 0,
         debug_shoot_target |-> None,
         shoot_now |-> [t \in 0 .. 1 |-> FALSE],
         \* the process has aborted on a failed unwrap
         panicked |-> FALSE],
        pattern)

\* a reset that also starts the score afresh, a variant of reset
reset_new_match(G, pattern) ==
    LET cleared == [G EXCEPT !.gen = G.gen + 1, !.ball = build_ball,
                             !.teams = [t \in 0 .. 1 |-> [G.teams[t] EXCEPT !.score = 0]]]
        rebuilt == add_players(cleared, pattern)
    IN  [rebuilt EXCEPT !.ball_owner = None,
                        !.camera_focus = Vec(HALF_LEVEL_W, HALF_LEVEL_H)]

\* a reset that leaves ball_owner as it was, a variant of reset
reset_keeps_owner(G, pattern) ==
    LET cleared == [G EXCEPT !.gen = G.gen + 1, !.ball = build_ball]
        rebuilt == add_players(cleared, pattern)
    IN  [rebuilt EXCEPT !.camera_focus = Vec(HALF_LEVEL_W, HALF_LEVEL_H)]

\* Game::reset: clear the world, rebuild ball and players
reset(G, pattern) ==
    LET cleared == [G EXCEPT !.gen = G.gen + 1, !.ball = build_ball]
        rebuilt == add_players(cleared, pattern)
    IN  [rebuilt EXCEPT !.ball_owner = None,
                        !.camera_focus = Vec(HALF_LEVEL_W, HALF_LEVEL_H)]

---------------------------------------------------------------------------
(* Queries                                                                 *)

\* the players in query order
PlayerSeq == [k \in 1 .. 14 |-> k - 1]

human(G, t) == G.teams[t].controls

RECURSIVE MinByDist(_, _, _, _)
\* Iterator::min_by(cmp_dist(.., dest)) over the players of seq (not empty):
\* the first of the nearest.  best is the nearest so far.
MinByDist(world, seq, dest, best) ==
    IF seq = << >> THEN best
    ELSE LET i == Head(seq)
         IN  MinByDist(world, Tail(seq), dest,
                       IF cmp_dist(world[best].pos, world[i].pos, dest) = 1
                       THEN i ELSE best)

Nearest(world, seq, dest) == MinByDist(world, Tail(seq), dest, Head(seq))

RECURSIVE InsertByDist(_, _, _, _)
\* s with player i inserted behind every player that is not farther from dest
InsertByDist(world, s, i, dest) ==
    IF s = << >> THEN <<i>>
    ELSE IF cmp_dist(world[i].pos, world[Head(s)].pos, dest) = 0 - 1
         THEN <<i>> \o s
         ELSE <<Head(s)>> \o InsertByDist(world, Tail(s), i, dest)

RECURSIVE SortByDist(_, _, _, _)
\* slice::sort_by(cmp_dist(.., dest)): stable, nearest first
SortByDist(world, seq, dest, done) ==
    IF seq = << >> THEN done
    ELSE SortByDist(world, Tail(seq), dest, InsertByDist(world, done, Head(seq), dest))

\* the alternation begun with downfield, a variant of Alternating
AlternatingDownFirst(upfield, downfield) ==
    LET up == [k \in 1 .. Len(upfield) |-> Some(upfield[k])] \o <<None, None>>
        down == [k \in 1 .. Len(downfield) |-> Some(downfield[k])] \o <<None, None>>
        n == Min(Len(up), Len(down))
        flat == [k \in 1 .. 2 * n |->
                   IF k % 2 = 1 THEN down[(k + 1) \div 2] ELSE up[k \div 2]]
        kept == SelectSeq(flat, IsSome)
    IN  [k \in 1 .. Len(kept) |-> Unwrap(kept[k])]

\* upfield.zip(downfield) flattened, with both lists padded by two None and
\* the None entries dropped: zip stops at the end of the shorter padded list
Alternating(upfield, downfield) ==
    LET up == [k \in 1 .. Len(upfield) |-> Some(upfield[k])] \o <<None, None>>
        down == [k \in 1 .. Len(downfield) |-> Some(downfield[k])] \o <<None, None>>
        n == Min(Len(up), Len(down))
        flat == [k \in 1 .. 2 * n |->
                   IF k % 2 = 1 THEN up[(k + 1) \div 2] ELSE down[k \div 2]]
        kept == SelectSeq(flat, IsSome)
    IN  [k \in 1 .. Len(kept) |-> Unwrap(kept[k])]

\* the position (1-based) of i in seq, 0 when absent
RECURSIVE IndexOf(_, _)
IndexOf(seq, i) ==
    IF seq = << >> THEN 0
    ELSE IF Head(seq) = i THEN 1
    ELSE LET r == IndexOf(Tail(seq), i) IN IF r = 0 THEN 0 ELSE r + 1

---------------------------------------------------------------------------
(* Game::set_behaviours: marks and leads of this tick                      *)

\* the goalie marks the goal and nobody takes over its mark, a variant of
\* GoalieSwap
GoalieSwapNoHandover(world, owner, defending_team, goal) ==
    LET defenders == SelectSeq(PlayerSeq, LAMBDA i : world[i].team = defending_team)
        goalie == Nearest(world, defenders, goal)
    IN  [world EXCEPT ![goalie].mark = MarkGoal(goal)]

\* the goalie swap: the defender nearest its own goal marks the goal, the
\* owner's peer takes over the goalie's mark
GoalieSwap(world, owner, defending_team, goal) ==
    LET defenders == SelectSeq(PlayerSeq, LAMBDA i : world[i].team = defending_team)
        goalie == Nearest(world, defenders, goal)
        ball_owner_peer == world[owner].peer.idx
        goalie_mark == world[goalie].mark
        w1 == [world EXCEPT ![ball_owner_peer].mark = goalie_mark]
    IN  [w1 EXCEPT ![goalie].mark = MarkGoal(goal)]

\* the lead list without the Timer test of line 445, a variant of LeadList
LeadListAnyTimer(G, world, owner, defending_team) ==
    LET dt == G.teams[defending_team]
        ball_owner_pos == world[owner].pos
        eligible(i) ==
            /\ world[i].team = defending_team
            /\ (~dt.controls \/ dt.active_player = None
                  \/ Unwrap(dt.active_player) # Entity(G.gen, i))
            /\ world[i].mark.kind = "Player"
        players == SortByDist(world, SelectSeq(PlayerSeq, eligible), ball_owner_pos, << >>)
        isUp(i) == IF defending_team = 1
                   THEN world[i].pos.y > ball_owner_pos.y
                   ELSE world[i].pos.y < ball_owner_pos.y
        upfield == SelectSeq(players, isUp)
        downfield == SelectSeq(players, LAMBDA i : ~isUp(i))
    IN  Alternating(upfield, downfield)

\* the ranked lead list: the eligible defenders, nearest to the owner first,
\* upfield and downfield alternating
LeadList(G, world, owner, defending_team) ==
    LET dt == G.teams[defending_team]
        ball_owner_pos == world[owner].pos
        eligible(i) ==
            /\ world[i].team = defending_team
            /\ world[i].timer <= 0
            /\ (~dt.controls \/ dt.active_player = None
                  \/ Unwrap(dt.active_player) # Entity(G.gen, i))
            /\ world[i].mark.kind = "Player"
        players == SortByDist(world, SelectSeq(PlayerSeq, eligible), ball_owner_pos, << >>)
        isUp(i) == IF defending_team = 1
                   THEN world[i].pos.y > ball_owner_pos.y
                   ELSE world[i].pos.y < ball_owner_pos.y
        upfield == SelectSeq(players, isUp)
        downfield == SelectSeq(players, LAMBDA i : ~isUp(i))
    IN  Alternating(upfield, downfield)

\* a second lead whatever the difficulty, a variant of LeadDistance
LeadDistanceAlways(n, second_lead_enabled) ==
    IF n = 0 THEN Some(LEAD_DISTANCE_1)
    ELSE IF n = 1 THEN Some(LEAD_DISTANCE_2)
    ELSE None

\* the lead distance of the player ranked n (lines 479-484)
LeadDistance(n, second_lead_enabled) ==
    IF n = 0 THEN Some(LEAD_DISTANCE_1)
    ELSE IF n = 1 /\ second_lead_enabled THEN Some(LEAD_DISTANCE_2)
    ELSE None

set_behaviours(G) ==
    LET defaults == [i \in PlayerIds |->
                       [G.world[i] EXCEPT !.mark = MarkPlayer(G.world[i].peer),
                                          !.lead_dist = None, !.lead_rank = None]]
    IN  IF G.ball_owner = None THEN [G EXCEPT !.world = defaults]
        ELSE
          LET owner == Unwrap(G.ball_owner).idx
              defending_team == 1 - defaults[owner].team
              goal == Vec(HALF_LEVEL_W, (1 - defending_team) * LEVEL_H)
              marked == IF G.difficulty.goalie_enabled
                        THEN GoalieSwap(defaults, owner, defending_team, goal)
                        ELSE defaults
              alternating == LeadList(G, marked, owner, defending_team)
              lead(i) ==
                  LET n == IndexOf(alternating, i) - 1
                  IN  IF n < 0 THEN <<None, None>>
                      ELSE <<LeadDistance(n, G.difficulty.second_lead_enabled), Some(n)>>
          IN  [G EXCEPT !.world =
                 [i \in PlayerIds |->
                    [marked[i] EXCEPT !.lead_dist = lead(i)[1],
                                      !.lead_rank = lead(i)[2]]]]

---------------------------------------------------------------------------
(* Input of one frame: per control set (TEAM_CONTROLS[t] drives team t) the *)
(* held direction, dx and dy in -1 .. 1, and whether its shoot key went     *)
(* down this frame; the menu's Up / Down presses                            *)

\* Controls::movement
movement(inp, t) == Vec(inp.move[t].x * MAX_SPEED, inp.move[t].y * MAX_SPEED)
\* is_key_pressed(TEAM_CONTROLS[t].shoot)
shoot_pressed(inp, t) == inp.shoot[t]

---------------------------------------------------------------------------
(* Game::set_player_targets                                                *)

\* the while condition of the free-flight simulation (lines 585-587)
Chasing(sim_ball_pos, sim_ball_vel, frame, ppos) ==
    LET reach == PLAYER_INTERCEPT_BALL_SPEED * frame + DRIBBLE_DIST_X
    IN  /\ SqLen(VSub(sim_ball_pos, ppos)) > reach * reach
        /\ SqLen(sim_ball_vel) > Hundredths(50) * Hundredths(50)

RECURSIVE InterceptRound(_, _, _, _, _)
\* at most k more iterations of the loop, as <<sim_ball_pos, sim_ball_vel, frame>>
InterceptRound(sim_ball_pos, sim_ball_vel, frame, ppos, k) ==
    IF k = 0 \/ ~Chasing(sim_ball_pos, sim_ball_vel, frame, ppos)
    THEN <<sim_ball_pos, sim_ball_vel, frame>>
    ELSE InterceptRound(VAdd(sim_ball_pos, sim_ball_vel),
                        Vec(Dragged(sim_ball_vel.x), Dragged(sim_ball_vel.y)),
                        frame + 1, ppos, k - 1)

\* the interception target left at the player's own position, a variant of
\* Intercept
InterceptStay(sim_ball_pos, sim_ball_vel, frame, ppos) == ppos

RECURSIVE Intercept(_, _, _, _)
\* the free-flight simulation of the interception branch: the simulated ball
\* position at which the loop stops for a player at ppos
Intercept(sim_ball_pos, sim_ball_vel, frame, ppos) ==
    IF ~Chasing(sim_ball_pos, sim_ball_vel, frame, ppos) THEN sim_ball_pos
    ELSE LET r == InterceptRound(sim_ball_pos, sim_ball_vel, frame, ppos, ChunkLen)
         IN  Intercept(r[1], r[2], r[3], ppos)

\* where a marking player of a computer team stands: between its mark and the
\* ball.  mark_to_ball_vec.normalize() of the zero vector is NaN.
MarkingTarget(mark, mark_pos, ball_pos) ==
    LET mark_to_ball_vec == VSub(ball_pos, mark_pos)
        len == Length(mark_to_ball_vec)
        dist_from_mark == IF mark.kind = "Goal" THEN Min(len, PX(150)) ELSE len \div 2
    IN  IF mark_to_ball_vec = Vec(0, 0) THEN Vec(NAN, NAN)
        ELSE VAdd(mark_pos, ScaleTo(mark_to_ball_vec, dist_from_mark))

\* the Target {pos, speed} of player i, as <<pos, speed>>
PlayerTarget(G, inp, i) ==
    LET me == G.world[i]
        my_team == G.teams[me.team]
        i_am_active_player == my_team.active_player = Some(Entity(G.gen, i))
        ball_pos == G.ball.pos
        active == Abs(ball_pos.y - me.pos.y) < PX(400)
    IN  IF IsSome(G.kickoff_player) /\ Unwrap(G.kickoff_player) # Entity(G.gen, i)
        THEN <<me.pos, me.tspeed>>
        ELSE IF my_team.controls /\ i_am_active_player
        THEN <<VAdd(me.pos, movement(inp, me.team)),
               IF G.ball_owner = Some(Entity(G.gen, i))
               THEN HUMAN_PLAYER_WITH_BALL_SPEED
               ELSE HUMAN_PLAYER_WITHOUT_BALL_SPEED>>
        ELSE IF G.ball_owner = None
        THEN <<Intercept(ball_pos, Unwrap(G.ball.vel), 0, me.pos),
               PLAYER_INTERCEPT_BALL_SPEED>>
        ELSE
          LET owner == Unwrap(G.ball_owner).idx
              ow == G.world[owner]
          IN  IF owner = i THEN <<me.home, PLAYER_DEFAULT_SPEED>>
              ELSE IF me.team = ow.team
              THEN IF active
                   THEN LET direction == IF me.team = 0 THEN 0 - 1 ELSE 1
                        IN  <<Vec((me.home.x + ball_pos.x) \div 2,
                                  (me.home.y + ball_pos.y + PX(400) * direction) \div 2),
                              PLAYER_DEFAULT_SPEED>>
                   ELSE <<me.home, PLAYER_DEFAULT_SPEED>>
              ELSE IF IsSome(me.lead_dist)
              THEN LET targ == VAdd(ow.pos, to_vec(ow.dir, Unwrap(me.lead_dist)))
                   IN  <<Vec(Min(Max(targ.x, AI_MIN_X), AI_MAX_X),
                             Min(Max(targ.y, AI_MIN_Y), AI_MAX_Y)),
                         LEAD_PLAYER_BASE_SPEED
                           + (IF human(G, 1 - me.team)
                              THEN G.difficulty.speed_boost ELSE 0)>>
              ELSE
                LET mark_pos == IF me.mark.kind = "Goal" THEN me.mark.pos
                                ELSE G.world[me.mark.id.idx].pos
                IN  IF Abs(mark_pos.y - ball_pos.y) < PX(400)
                    THEN IF my_team.controls
                         THEN <<ball_pos, PLAYER_DEFAULT_SPEED>>
                         ELSE <<MarkingTarget(me.mark, mark_pos, ball_pos),
                                PLAYER_DEFAULT_SPEED>>
                    ELSE <<me.home, PLAYER_DEFAULT_SPEED>>

\* the interception branch reads the ball's Velocity component with unwrap
TargetsPanic(G) ==
    /\ G.ball_owner = None
    /\ G.ball.vel = None
    /\ \E i \in PlayerIds :
          /\ ~(IsSome(G.kickoff_player) /\ Unwrap(G.kickoff_player) # Entity(G.gen, i))
          /\ ~(G.teams[G.world[i].team].controls
                 /\ G.teams[G.world[i].team].active_player = Some(Entity(G.gen, i)))

set_player_targets(G, inp) ==
    IF TargetsPanic(G) THEN [G EXCEPT !.panicked = TRUE]
    ELSE [G EXCEPT !.world =
            [i \in PlayerIds |->
               LET t == PlayerTarget(G, inp, i)
               IN  [G.world[i] EXCEPT !.tpos = t[1], !.tspeed = t[2]]]]

---------------------------------------------------------------------------
(* update_players: move every player towards its target, turn its facing    *)

\* frames of the walk cycle, and the most it advances in a tick (4.5)
WALK_CYCLE == PX(72)
WALK_STEP == Tenths(45)

\* a player at its target shuffles a pixel to the right, a variant of
\* update_player
update_player_restless(me, ball_pos) ==
    IF me.tpos = me.pos THEN [me EXCEPT !.pos = VAdd(me.pos, Vec(PX(1), 0))]
    ELSE me

\* the facing a player wants: towards the ball when it stands on its target,
\* along its step otherwise (Angle::from_vec of a NaN vector is octant 0)
DesiredFacing(me, ball_pos) ==
    LET vector == VSub(me.tpos, me.pos)
    IN  IF IsNaN(me.tpos) THEN 0
        ELSE IF vector = Vec(0, 0) THEN from_vec(VSub(ball_pos, me.pos))
        ELSE from_vec(with_max_length(vector, me.tspeed))

\* the facing jumps to the desired facing, a variant of Turn
TurnSnap(dir, target_dir) == target_dir

\* one tick's turn of a facing towards the desired facing
Turn(dir, target_dir) == (dir + ANGLE_DIFFS[((target_dir - dir) % 8) + 1]) % 8

update_player(me, ball_pos) ==
    LET vector == VSub(me.tpos, me.pos)
        target_dir == DesiredFacing(me, ball_pos)
    IN  IF IsNaN(me.tpos)
        THEN \* every comparison with NaN is false: x takes the NaN, y stays,
             \* NaN.min(4.5) is 4.5 and NaN as i32 is 0
             [me EXCEPT !.pos = Vec(NAN, me.pos.y),
                        !.frame = (me.frame + WALK_STEP) % WALK_CYCLE,
                        !.dir = Turn(me.dir, target_dir)]
        ELSE IF vector = Vec(0, 0)
        THEN [me EXCEPT !.frame = 0, !.dir = Turn(me.dir, target_dir)]
        ELSE
          LET v == with_max_length(vector, me.tspeed)
              x1 == IF allow_movement(me.pos.x + v.x, me.pos.y)
                    THEN me.pos.x + v.x ELSE me.pos.x
              y1 == IF allow_movement(x1, me.pos.y + v.y)
                    THEN me.pos.y + v.y ELSE me.pos.y
          IN  [me EXCEPT !.pos = Vec(x1, y1),
                         !.frame = (me.frame + Min(Length(v), WALK_STEP)) % WALK_CYCLE,
                         !.dir = Turn(me.dir, target_dir)]

update_players(G) ==
    [G EXCEPT !.world = [i \in PlayerIds |-> update_player(G.world[i], G.ball.pos)],
              !.ev.face_from = [i \in PlayerIds |-> G.world[i].dir],
              !.ev.face_want =
                  [i \in PlayerIds |-> DesiredFacing(G.world[i], G.ball.pos)]]

---------------------------------------------------------------------------
(* What the last tick did, observed for the properties: not program state  *)

NoEvents ==
    [reset |-> FALSE,           \* Game::reset ran
     goal |-> FALSE,            \* check_goals counted a goal
     owner_at_scan |-> None,    \* ball_owner when the acquisition scan began
     in_range |-> << >>,        \* the players that passed the scan's test
     scan |-> << >>,            \* the players the scan wrote to ball_owner
     dribbled_off |-> None,     \* the owner that dribbled off the pitch
     owner_at_shot |-> None,    \* ball_owner when shot evaluation began
     shoot |-> [t \in 0 .. 1 |-> FALSE],   \* is_key_pressed(shoot), by team
     aim |-> "none",            \* best_target: "none", "goal" or "player"
     kicker |-> None,           \* the player that kicked
     kick_dir |-> 0,            \* the kicker's facing
     shoot_vec |-> Vec(0, 0),   \* the kick direction before normalizing
     \* what set_behaviours and set_player_targets started from
     plan_owner |-> None,       \* ball_owner
     plan_kickoff |-> None,     \* kickoff_player
     plan_active |-> [t \in 0 .. 1 |-> None],    \* each team's active_player
     plan_timer |-> [i \in PlayerIds |-> 0],     \* each player's Timer
     plan_pos |-> [i \in PlayerIds |-> Vec(0, 0)],   \* each player's Position
     \* what update_players turned: None when it did not run
     face_from |-> None,        \* each player's facing before the turn
     face_want |-> None,        \* each player's desired facing
     \* history, kept from tick to tick until a reset: the ticks since each
     \* player last kicked, and last lost the ball to an opponent or over the
     \* line; -1 when it never did, or more than 60 ticks ago
     kicked_ago |-> [i \in PlayerIds |-> 0 - 1],
     lost_ago |-> [i \in PlayerIds |-> 0 - 1],
     \* the successive owners of the ball at the tick ends since the last tick
     \* end at which it had no owner, a repeated owner listed once
     owners |-> << >>]

---------------------------------------------------------------------------
(* Game::update_ball                                                       *)

\* the owner that dribbles off gets the cooldown of a kick, a variant of
\* MoveBall
MoveBallShortCooldown(G) ==
    IF G.ball_owner = None
    THEN IF G.ball.vel = None THEN [G EXCEPT !.panicked = TRUE]
         ELSE
           LET bp == G.ball.pos
               vel == Unwrap(G.ball.vel)
               bounds_x == IF Abs(bp.y - HALF_LEVEL_H) > HALF_PITCH_H
                           THEN GOAL_BOUNDS_X ELSE PITCH_BOUNDS_X
               bounds_y == IF Abs(bp.x - HALF_LEVEL_W) < HALF_GOAL_W
                           THEN GOAL_BOUNDS_Y ELSE PITCH_BOUNDS_Y
               px == ball_physics(bp.x, vel.x, bounds_x)
               py == ball_physics(bp.y, vel.y, bounds_y)
           IN  [G EXCEPT !.ball.pos = Vec(px[1], py[1]),
                         !.ball.vel = Some(Vec(px[2], py[2]))]
    ELSE
      LET owner_id == Unwrap(G.ball_owner).idx
          ow == G.world[owner_id]
          new_x == avg(G.ball.pos.x,
                       ow.pos.x + DivR(DRIBBLE_DIST_X * AngleSin(ow.dir), TRIG_DEN))
          new_y == avg(G.ball.pos.y,
                       ow.pos.y - DivR(DRIBBLE_DIST_Y * AngleCos(ow.dir), TRIG_DEN))
          G1 == [G EXCEPT !.kickoff_player = None]
      IN  IF on_pitch(new_x, new_y)
          THEN [G1 EXCEPT !.ball.pos = Vec(new_x, new_y)]
          ELSE \* the player dribbled off the pitch and loses the ball
               [G1 EXCEPT !.ball_owner = None,
                          !.world[owner_id].timer = 10,
                          !.ball.vel = Some(to_vec(ow.dir, PX(3))),
                          !.ev.dribbled_off = Some(owner_id)]

\* free flight or dribbling, then the camera (lines 601-655)
MoveBall(G) ==
    IF G.ball_owner = None
    THEN IF G.ball.vel = None THEN [G EXCEPT !.panicked = TRUE]
         ELSE
           LET bp == G.ball.pos
               vel == Unwrap(G.ball.vel)
               bounds_x == IF Abs(bp.y - HALF_LEVEL_H) > HALF_PITCH_H
                           THEN GOAL_BOUNDS_X ELSE PITCH_BOUNDS_X
               bounds_y == IF Abs(bp.x - HALF_LEVEL_W) < HALF_GOAL_W
                           THEN GOAL_BOUNDS_Y ELSE PITCH_BOUNDS_Y
               px == ball_physics(bp.x, vel.x, bounds_x)
               py == ball_physics(bp.y, vel.y, bounds_y)
           IN  [G EXCEPT !.ball.pos = Vec(px[1], py[1]),
                         !.ball.vel = Some(Vec(px[2], py[2]))]
    ELSE
      LET owner_id == Unwrap(G.ball_owner).idx
          ow == G.world[owner_id]
          new_x == avg(G.ball.pos.x,
                       ow.pos.x + DivR(DRIBBLE_DIST_X * AngleSin(ow.dir), TRIG_DEN))
          new_y == avg(G.ball.pos.y,
                       ow.pos.y - DivR(DRIBBLE_DIST_Y * AngleCos(ow.dir), TRIG_DEN))
          G1 == [G EXCEPT !.kickoff_player = None]
      IN  IF on_pitch(new_x, new_y)
          THEN [G1 EXCEPT !.ball.pos = Vec(new_x, new_y)]
          ELSE \* the player dribbled off the pitch and loses the ball
               [G1 EXCEPT !.ball_owner = None,
                          !.world[owner_id].timer = 60,
                          !.ball.vel = Some(to_vec(ow.dir, PX(3))),
                          !.ev.dribbled_off = Some(owner_id)]

MoveCamera(G) ==
    [G EXCEPT !.camera_focus =
        VAdd(@, with_max_length(VSub(G.ball.pos, G.camera_focus), PX(8)))]

RECURSIVE ScanKeepsActive(_, _, _, _)
\* an acquisition leaves the team's active player alone, a variant of Scan
ScanKeepsActive(G, seq, owner_team, S) ==
    IF seq = << >> THEN S
    ELSE
      LET id == Head(seq)
          p == G.world[id]
          hit == /\ (owner_team = None \/ Unwrap(owner_team) # p.team)
                 /\ SqLen(VSub(G.ball.pos, p.pos)) <= DRIBBLE_DIST_X * DRIBBLE_DIST_X
                 /\ p.timer = 0
      IN  ScanKeepsActive(G, Tail(seq), owner_team,
               IF hit
               THEN [ball_owner |-> Some(Entity(G.gen, id)),
                     old_owner |-> S.ball_owner,
                     teams |-> S.teams,
                     in_range |-> Append(S.in_range, id)]
               ELSE S)

RECURSIVE Scan(_, _, _, _)
\* the acquisition scan over seq (lines 657-671); S is the running
\* [ball_owner, old_owner, teams, in_range], owner_team is fixed before the scan
Scan(G, seq, owner_team, S) ==
    IF seq = << >> THEN S
    ELSE
      LET id == Head(seq)
          p == G.world[id]
          hit == /\ (owner_team = None \/ Unwrap(owner_team) # p.team)
                 /\ SqLen(VSub(G.ball.pos, p.pos)) <= DRIBBLE_DIST_X * DRIBBLE_DIST_X
                 /\ p.timer = 0
      IN  Scan(G, Tail(seq), owner_team,
               IF hit
               THEN [ball_owner |-> Some(Entity(G.gen, id)),
                     old_owner |-> S.ball_owner,
                     teams |-> [S.teams EXCEPT ![p.team].active_player =
                                                  Some(Entity(G.gen, id))],
                     in_range |-> Append(S.in_range, id)]
               ELSE S)

\* the scan and its consequences (lines 657-684); owner_team is the team of
\* the owner update_ball started with
Acquire(G, owner_team) ==
    LET S == Scan(G, PlayerSeq, owner_team,
                  [ball_owner |-> G.ball_owner, old_owner |-> None,
                   teams |-> G.teams, in_range |-> << >>])
        ball_was_acquired == S.in_range # << >>
        G1 == [G EXCEPT !.ball_owner = S.ball_owner,
                        !.teams = S.teams,
                        !.ev.owner_at_scan = G.ball_owner,
                        !.ev.in_range = S.in_range,
                        !.ev.scan = S.in_range]
        \* remove_one::<Vector> only when the last write replaced no owner
        G2 == IF ball_was_acquired /\ S.old_owner = None
              THEN IF G1.ball.vel = None THEN [G1 EXCEPT !.panicked = TRUE]
                   ELSE [G1 EXCEPT !.ball.vel = None]
              ELSE G1
        G3 == IF ball_was_acquired
              THEN [G2 EXCEPT !.ball.timer = G.difficulty.holdoff_timer]
              ELSE G2
    IN  IF S.old_owner = None THEN G3
        ELSE [G3 EXCEPT !.world[Unwrap(S.old_owner).idx].timer = 60]


\* the shoot targets inside the owner's forward cone (lines 697-718): the
\* other players of the owner's team in query order, then the opposing goal
ShootTargets(G, owner_id) ==
    LET ow == G.world[owner_id]
        mates == SelectSeq(PlayerSeq,
                           LAMBDA i : i # owner_id /\ G.world[i].team = ow.team)
        all == [k \in 1 .. Len(mates) |->
                  [kind |-> "player", pos |-> G.world[mates[k]].pos, id |-> mates[k]]]
               \o <<[kind |-> "goal", pos |-> Vec(HALF_LEVEL_W, ow.team * LEVEL_H),
                     id |-> 0 - 1]>>
        keep(st) ==
            LET shoot_vec == VSub(st.pos, ow.pos)
                sq == SqLen(shoot_vec)
            IN  /\ ~(sq <= 0 \/ sq >= PX(300) * PX(300))
                \* shoot_vec.normalize().dot(to_vec(dir)) > 0.8
                /\ shoot_vec.x * AngleSin(ow.dir) - shoot_vec.y * AngleCos(ow.dir)
                     > ((8 * TRIG_DEN) \div 10) * Length(shoot_vec)
    IN  SelectSeq(all, keep)

RECURSIVE MinTarget(_, _, _)
\* targets.iter().min_by(cmp_dist(.., owner_pos)): the first of the nearest
MinTarget(seq, owner_pos, best) ==
    IF seq = << >> THEN best
    ELSE MinTarget(Tail(seq), owner_pos,
                   IF cmp_dist(best.pos, Head(seq).pos, owner_pos) = 1
                   THEN Head(seq) ELSE best)

RECURSIVE LeadCorrection(_, _, _, _, _, _)
\* the 8 rounds of the lead correction of a pass (lines 744-751): targ after
\* the last round
LeadCorrection(n, lead, targ, tpos, owner_pos, owner_dir) ==
    IF n = 0 THEN targ
    ELSE LET t1 == VAdd(tpos, to_vec(owner_dir, lead))
             length == Length(VSub(t1, owner_pos))
             \* never negative: the test below only fixes the order of evaluation
             next == HUMAN_PLAYER_WITHOUT_BALL_SPEED * steps(length)
         IN  IF next >= 0
             THEN LeadCorrection(n - 1, next, t1, tpos, owner_pos, owner_dir)
             ELSE t1

\* a kick at the players' top speed, a variant of KickVelocity
KickVelocitySlow(shoot_vec) == ScaleTo(shoot_vec, MAX_SPEED)

\* the velocity of a kicked ball (line 775)
KickVelocity(shoot_vec) == ScaleTo(shoot_vec, KICK_STRENGTH)

\* shot evaluation and the kick (lines 685-779)
Shoot(G, inp) ==
    LET G0 == [G EXCEPT !.shoot_now = [t \in 0 .. 1 |-> FALSE],
                        !.debug_shoot_target = None,
                        !.ev.owner_at_shot = G.ball_owner,
                        !.ev.shoot = inp.shoot]
    IN  IF G.ball_owner = None THEN G0
        ELSE
          LET owner_id == Unwrap(G.ball_owner).idx
              ow == G.world[owner_id]
              owner_team_id == ow.team
              targets == ShootTargets(G, owner_id)
              has_target == targets # << >>
              best == MinTarget(Tail(targets), ow.pos, Head(targets))
              do_shoot == human(G, owner_team_id) /\ shoot_pressed(inp, owner_team_id)
              G1 == [G0 EXCEPT !.debug_shoot_target =
                                  IF has_target THEN Some(best.pos) ELSE None,
                               !.shoot_now[owner_team_id] = do_shoot,
                               !.ev.aim = IF has_target THEN best.kind ELSE "none"]
              mates == SelectSeq(PlayerSeq, LAMBDA i : G.world[i].team = owner_team_id)
              \* no target: take a guess at which player to activate
              closest_player == Nearest(G.world, mates, VAdd(ow.pos, to_vec(ow.dir, PX(250))))
              shoot_vec ==
                  IF ~has_target THEN to_vec(ow.dir, TRIG_DEN)
                  ELSE IF best.kind = "player"
                  THEN VSub(LeadCorrection(8, 0, best.pos, best.pos, ow.pos, ow.dir), ow.pos)
                  ELSE VSub(best.pos, ow.pos)
              active == IF ~has_target THEN Some(Entity(G.gen, closest_player))
                        ELSE IF best.kind = "player" THEN Some(Entity(G.gen, best.id))
                        ELSE G.teams[owner_team_id].active_player
          IN  IF ~do_shoot THEN G1
              ELSE [G1 EXCEPT !.teams[owner_team_id].active_player = active,
                              !.world[owner_id].timer = 10,
                              !.ball_owner = None,
                              !.ball.vel = Some(KickVelocity(shoot_vec)),
                              !.ev.kicker = Some(owner_id),
                              !.ev.kick_dir = ow.dir,
                              !.ev.shoot_vec = shoot_vec]

\* the scan open to the owner's own team, a variant of update_ball
update_ball_open_scan(G, inp) ==
    LET moved == MoveBall(G)
    IN  IF moved.panicked THEN moved
        ELSE LET acquired == Acquire(MoveCamera(moved), None)
             IN  IF acquired.panicked THEN acquired ELSE Shoot(acquired, inp)

\* Game::update_ball (lines 600-780)
update_ball(G, inp) ==
    LET owner_team == IF G.ball_owner = None THEN None
                      ELSE Some(G.world[Unwrap(G.ball_owner).idx].team)
        moved == MoveBall(G)
    IN  IF moved.panicked THEN moved
        ELSE LET acquired == Acquire(MoveCamera(moved), owner_team)
             IN  IF acquired.panicked THEN acquired ELSE Shoot(acquired, inp)

---------------------------------------------------------------------------
(* Game::switch_players                                                    *)

RECURSIVE MinByWeighted(_, _, _, _, _)
MinByWeighted(world, seq, dest, bias, best) ==
    IF seq = << >> THEN best
    ELSE LET i == Head(seq)
         IN  MinByWeighted(world, Tail(seq), dest, bias,
                 IF cmp_dist_weighted(world[best].pos, world[i].pos, dest, bias) = 1
                 THEN i ELSE best)

\* a press switches the active player also for the team that has just shot, a
\* variant of SwitchTeams
RECURSIVE SwitchTeamsAnyPress(_, _, _)
SwitchTeamsAnyPress(G, inp, t) ==
    IF t > 1 THEN G
    ELSE
      LET mates == SelectSeq(PlayerSeq, LAMBDA i : G.world[i].team = t)
          dir_bias == IF IsSome(G.ball_owner) THEN 2 * t - 1 ELSE 0
          nearest == MinByWeighted(G.world, Tail(mates), G.ball.pos, dir_bias, Head(mates))
      IN  SwitchTeamsAnyPress(
              IF G.teams[t].controls /\ shoot_pressed(inp, t)
              THEN [G EXCEPT !.teams[t].active_player = Some(Entity(G.gen, nearest))]
              ELSE G,
              inp, t + 1)

RECURSIVE SwitchTeams(_, _, _)
SwitchTeams(G, inp, t) ==
    IF t > 1 THEN G
    ELSE
      LET mates == SelectSeq(PlayerSeq, LAMBDA i : G.world[i].team = t)
          dir_bias == IF IsSome(G.ball_owner) THEN 2 * t - 1 ELSE 0
          nearest == MinByWeighted(G.world, Tail(mates), G.ball.pos, dir_bias, Head(mates))
      IN  SwitchTeams(
              IF ~G.shoot_now[t] /\ G.teams[t].controls /\ shoot_pressed(inp, t)
              THEN [G EXCEPT !.teams[t].active_player = Some(Entity(G.gen, nearest))]
              ELSE G,
              inp, t + 1)

switch_players(G, inp) ==
    IF IsSome(G.kickoff_player) THEN G ELSE SwitchTeams(G, inp, 0)

---------------------------------------------------------------------------
(* Game::check_goals and Game::update                                      *)

\* line 363 with the counter cleared each tick, a variant of GoalDetected
GoalDetectedAnyTime(timer, ball_y) ==
    Abs(ball_y - HALF_LEVEL_H) > HALF_PITCH_H

\* the goal test of check_goals (line 363)
GoalDetected(timer, ball_y) ==
    timer < 0 /\ Abs(ball_y - HALF_LEVEL_H) > HALF_PITCH_H

\* the goal is credited to the team that defends the end, a variant of
\* check_goals
check_goals_defender(G, pattern) ==
    LET ball_y == G.ball.pos.y
        timer == G.score_timer - 1
        G1 == [G EXCEPT !.score_timer = timer]
    IN  IF timer = 0 THEN [reset(G1, pattern) EXCEPT !.ev.reset = TRUE]
        ELSE IF GoalDetected(timer, ball_y)
        THEN LET scoring_team == IF ball_y < HALF_LEVEL_H THEN 1 ELSE 0
             IN  [G1 EXCEPT !.scoring_team = scoring_team,
                            !.teams[scoring_team].score = @ + 1,
                            !.score_timer = 60,
                            !.ev.goal = TRUE]
        ELSE G1

check_goals(G, pattern) ==
    LET ball_y == G.ball.pos.y
        timer == G.score_timer - 1
        G1 == [G EXCEPT !.score_timer = timer]
    IN  IF timer = 0 THEN [reset(G1, pattern) EXCEPT !.ev.reset = TRUE]
        ELSE IF GoalDetected(timer, ball_y)
        THEN LET scoring_team == IF ball_y < HALF_LEVEL_H THEN 0 ELSE 1
             IN  [G1 EXCEPT !.scoring_team = scoring_team,
                            !.teams[scoring_team].score = @ + 1,
                            !.score_timer = 60,
                            !.ev.goal = TRUE]
        ELSE G1

\* a decay without the test of line 399, a variant of Decay
DecayAlways(t) == t - 1

\* one Timer's decay (lines 399-401)
Decay(t) == IF t > 0 THEN t - 1 ELSE t

\* the timer decay at the head of update: every Timer, the ball's included
DecayTimers(G) ==
    [G EXCEPT !.world = [i \in PlayerIds |->
                           [G.world[i] EXCEPT !.timer = Decay(@)]],
              !.ball.timer = Decay(@)]

\* the observation of the state in which the planning phase of a tick begins
Planning(G) ==
    [G EXCEPT !.ev.plan_owner = G.ball_owner,
              !.ev.plan_kickoff = G.kickoff_player,
              !.ev.plan_active = [t \in 0 .. 1 |-> G.teams[t].active_player],
              !.ev.plan_timer = [i \in PlayerIds |-> G.world[i].timer],
              !.ev.plan_pos = [i \in PlayerIds |-> G.world[i].pos]]

\* the observation of the ticks since the kicks and losses of possession;
\* before is the observation of the tick before
Remember(before, G) ==
    LET age(a) == IF G.ev.reset \/ a < 0 \/ a >= 60 THEN 0 - 1 ELSE a + 1
        lost(i) == \/ G.ev.dribbled_off = Some(i)
                   \/ /\ G.ev.scan # << >>
                      /\ G.ev.owner_at_scan = Some(Entity(G.gen, i))
    IN  [G EXCEPT !.ev.kicked_ago =
                     [i \in PlayerIds |->
                        IF G.ev.kicker = Some(i) THEN 0 ELSE age(before.kicked_ago[i])],
                  !.ev.lost_ago =
                     [i \in PlayerIds |->
                        IF lost(i) THEN 0 ELSE age(before.lost_ago[i])],
                  !.ev.owners =
                     IF G.ev.reset \/ G.ball_owner = None THEN << >>
                     ELSE LET id == Unwrap(G.ball_owner).idx
                              so_far == before.owners
                          IN  IF so_far # << >> /\ so_far[Len(so_far)] = id
                              THEN so_far ELSE Append(so_far, id)]

\* Game::update: one tick.  A failed unwrap aborts the process where it fails.
update(G, inp, pattern) ==
    LET g0 == check_goals(DecayTimers([G EXCEPT !.ev = NoEvents]), pattern)
        g1 == Planning(g0)
        g2 == set_player_targets(set_behaviours(g1), inp)
    IN  IF g2.panicked THEN g2
        ELSE LET g3 == update_ball(update_players(g2), inp)
             IN  IF g3.panicked THEN g3
                 ELSE Remember(G.ev, switch_players(g3, inp))

---------------------------------------------------------------------------
(* The environment: the keys of each frame.  A behaviour plays one of a     *)
(* bounded family of key scripts from program start, and after the script   *)
(* up to MaxFree frames of keys chosen freely from a small alphabet.        *)

Idle == [space |-> FALSE, up |-> FALSE, down |-> FALSE, shift |-> FALSE,
         move |-> [t \in 0 .. 1 |-> Vec(0, 0)]]

\* one frame's keys: the menu reads space / up / down, team 0 is driven by
\* the arrow keys and Space, team 1 by WASD and LeftShift
Keys(space, up, down, shift, m0, m1) ==
    [space |-> space, up |-> up, down |-> down, shift |-> shift,
     move |-> [t \in 0 .. 1 |-> IF t = 0 THEN m0 ELSE m1]]

\* the keys used by the scripts
Space == Keys(TRUE, FALSE, FALSE, FALSE, Vec(0, 0), Vec(0, 0))
LeftShift == Keys(FALSE, FALSE, FALSE, TRUE, Vec(0, 0), Vec(0, 0))
\* the Up / Down arrow pressed this frame: it is also held down
ArrowUp == Keys(FALSE, TRUE, FALSE, FALSE, Vec(0, 0 - 1), Vec(0, 0))
ArrowDown == Keys(FALSE, FALSE, TRUE, FALSE, Vec(0, 1), Vec(0, 0))
\* direction keys held: (x0, y0) by team 0, (x1, y1) by team 1
Hold(x0, y0, x1, y1) == Keys(FALSE, FALSE, FALSE, FALSE, Vec(x0, y0), Vec(x1, y1))
GoRight == Hold(1, 0, 0, 0)
GoLeft == Hold(0 - 1, 0, 0, 0)
GoUp == Hold(0, 0 - 1, 0, 0)
GoDown == Hold(0, 1, 0, 0)

RECURSIVE Repeat(_, _)
\* segs played n times over
Repeat(n, segs) == IF n = 0 THEN << >> ELSE segs \o Repeat(n - 1, segs)

\* One player, Easy: team 0 takes the kickoff and walks the ball into its own
\* goal, nine times over; the match ends, Space returns to the menu.
OwnGoals ==
    << <<1, Space>>, <<1, ArrowUp>>, <<1, Space>>, <<6, GoRight>>, <<265, GoDown>> >>
    \o Repeat(GOALS_TO_WIN - 1, << <<4, GoRight>>, <<263, GoDown>> >>)
    \o << <<3, Idle>>, <<1, Space>>, <<3, Idle>>, <<1, Space>>, <<2, Idle>> >>

\* One player, Medium: two passes, and the loose ball is chased by everyone.
Passes ==
    << <<2, Space>>, <<6, GoRight>>, <<10, GoUp>>, <<10, Idle>>, <<10, GoDown>>,
       <<1, Space>>, <<9, Idle>>, <<10, GoUp>>, <<1, Space>>, <<20, Idle>> >>

\* One player, Hard: a kick with nobody ahead, then a run down the left.
LeftWing ==
    << <<1, Space>>, <<1, ArrowDown>>, <<1, Space>>, <<6, GoRight>>, <<5, GoLeft>>,
       <<1, Space>>, <<4, Idle>>, <<120, GoLeft>> >>

\* One player, Easy: a run up the middle and a shot at goal; team 1 kicks off
\* after the goal.
Attack ==
    << <<1, Space>>, <<1, ArrowUp>>, <<1, Space>>, <<6, GoRight>>, <<145, GoUp>>,
       <<1, Space>>, <<110, Idle>> >>

\* Two players: team 1 closes in on the owner; then team 1 kicks.
Duel ==
    << <<1, ArrowDown>>, <<1, Space>>, <<6, GoRight>>, <<10, Hold(0, 0 - 1, 0 - 1, 0)>>,
       <<10, Hold(0, 0 - 1, 0, 1)>>, <<10, Hold(0, 0, 0 - 1, 1)>>,
       <<10, Hold(1, 0, 0 - 1, 0)>>, <<10, Idle>>, <<1, Hold(0, 0 - 1, 0 - 1, 0)>>,
       <<3, Idle>>, <<1, LeftShift>>, <<12, Idle>> >>

\* One player, Medium: team 0 presses Space in the frame its kickoff player
\* reaches the ball, and the ball is kicked in the tick it was acquired.
FirstTouch ==
    << <<2, Space>>, <<3, GoRight>>,
       <<1, Keys(TRUE, FALSE, FALSE, FALSE, Vec(1, 0), Vec(0, 0))>>, <<40, Idle>> >>

\* One player, Easy: a run up the middle and a kick up and to the left, past
\* the left post of the top goal.
PostCorner ==
    << <<1, Space>>, <<1, ArrowUp>>, <<1, Space>>, <<6, GoRight>>, <<180, GoUp>>,
       <<3, Hold(0 - 1, 0 - 1, 0, 0)>>,
       <<1, Keys(TRUE, FALSE, FALSE, FALSE, Vec(0 - 1, 0 - 1), Vec(0, 0))>>,
       <<14, Idle>> >>

\* a script is a sequence of segments <<n, keys>>: keys held for n frames
Scripts == <<OwnGoals, Passes, LeftWing, Attack, Duel, FirstTouch, PostCorner>>

RECURSIVE SegLen(_)
SegLen(segs) == IF segs = << >> THEN 0 ELSE Head(segs)[1] + SegLen(Tail(segs))

RECURSIVE SegAt(_, _)
SegAt(segs, f) ==
    IF f < Head(segs)[1] THEN Head(segs)[2] ELSE SegAt(Tail(segs), f - Head(segs)[1])

MaxFree == 2
FreeKeys == {Idle, Space, LeftShift}

\* the keys frame f of script s may see
FrameKeys(s, f) ==
    IF f < SegLen(Scripts[s]) THEN {SegAt(Scripts[s], f)}
    ELSE IF f < SegLen(Scripts[s]) + MaxFree THEN FreeKeys
    ELSE {}

shoot_keys(inp) == [t \in 0 .. 1 |-> IF t = 0 THEN inp.space ELSE inp.shift]
GameInput(inp) == [move |-> inp.move, shoot |-> shoot_keys(inp)]

---------------------------------------------------------------------------
(* State                                                                   *)

VARIABLES
    state,              \* State: "Menu", "Play" or "GameOver"
    menu_state,         \* MenuState: "NumPlayers" or "Difficulty"
    settings,           \* Settings {num_players, difficulty_level}
    difficulty,         \* Game.difficulty
    camera_focus,       \* Game.camera_focus
    world,              \* Game.world: the players' components, by index
    gen,                \* the generation of the world's entities
    ball,               \* the ball entity's Position, Velocity (optional), Timer
    ball_owner,         \* Game.ball_owner
    kickoff_player,     \* Game.kickoff_player
    teams,              \* Game.teams
    scoring_team,       \* Game.scoring_team
    score_timer,        \* Game.score_timer
    debug_shoot_target, \* Game.debug_shoot_target
    shoot_now,          \* Game.shoot_now
    panicked,           \* an unwrap failed: the process is gone
    ev,                 \* what the last tick did (observation)
    script,             \* the key script of this behaviour
    frame,              \* frames played so far
    keys,               \* the keys polled in the last frame
    seed,               \* the seed of the random number generator
    draws,              \* the games constructed or reset so far
    probe               \* a point put to allow_movement, and the answer

vars == <<state, menu_state, settings, difficulty, camera_focus, world, gen, ball,
          ball_owner, kickoff_player, teams, scoring_team, score_timer,
          debug_shoot_target, shoot_now, panicked, ev, script, frame, keys,
          seed, draws, probe>>

\* the Game as one record, for the operators above
TheGame ==
    [difficulty |-> difficulty, camera_focus |-> camera_focus, world |-> world,
     gen |-> gen, ball |-> ball, ball_owner |-> ball_owner,
     kickoff_player |-> kickoff_player, teams |-> teams,
     scoring_team |-> scoring_team, score_timer |-> score_timer,
     debug_shoot_target |-> debug_shoot_target, shoot_now |-> shoot_now,
     panicked |-> panicked, ev |-> ev]

SetGame(G) ==
    /\ difficulty' = G.difficulty
    /\ camera_focus' = G.camera_focus
    /\ world' = G.world
    /\ gen' = G.gen
    /\ ball' = G.ball
    /\ ball_owner' = G.ball_owner
    /\ kickoff_player' = G.kickoff_player
    /\ teams' = G.teams
    /\ scoring_team' = G.scoring_team
    /\ score_timer' = G.score_timer
    /\ debug_shoot_target' = G.debug_shoot_target
    /\ shoot_now' = G.shoot_now
    /\ panicked' = G.panicked
    /\ ev' = G.ev

\* Game::new as main uses it, with the observation slot
NewGame(level, pattern, controls0, controls1) ==
    LET G == Game_new(get_difficulty(level), pattern)
    IN  [f \in DOMAIN G \cup {"ev"} |->
           IF f = "ev" THEN NoEvents
           ELSE IF f = "teams"
           THEN [t \in 0 .. 1 |->
                   [G.teams[t] EXCEPT !.controls = IF t = 0 THEN controls0 ELSE controls1]]
           ELSE G[f]]

Settings_new == [num_players |-> "One", difficulty_level |-> "Medium"]

Seeds == 0 .. (NumSeeds - 1)

\* the jitter pattern of the next construction
Pattern == <<seed, draws>>

\* main, up to the first frame: the menu over a demo game with no controls
ProgramStart ==
    /\ state = "Menu"
    /\ menu_state = "NumPlayers"
    /\ settings = Settings_new
    /\ draws = 1
    /\ LET G == NewGame("Hard", <<seed, 0>>, FALSE, FALSE)
       IN  /\ difficulty = G.difficulty
           /\ camera_focus = G.camera_focus
           /\ world = G.world
           /\ gen = G.gen
           /\ ball = G.ball
           /\ ball_owner = G.ball_owner
           /\ kickoff_player = G.kickoff_player
           /\ teams = G.teams
           /\ scoring_team = G.scoring_team
           /\ score_timer = G.score_timer
           /\ debug_shoot_target = G.debug_shoot_target
           /\ shoot_now = G.shoot_now
           /\ panicked = G.panicked
           /\ ev = G.ev
    /\ frame = 0
    /\ keys = Idle

Init ==
    /\ seed \in Seeds
    /\ script \in DOMAIN Scripts
    /\ ProgramStart
    /\ probe = None

\* the menu's Up / Down handling (lines 1009-1049)
MenuChange(inp) ==
    IF inp.up THEN "Up" ELSE IF inp.down THEN "Down" ELSE "NoChange"

NextDifficulty(level, change) ==
    CASE level = "Easy" /\ change = "Up" -> "Hard"
      [] level = "Easy" /\ change = "Down" -> "Medium"
      [] level = "Medium" /\ change = "Up" -> "Easy"
      [] level = "Medium" /\ change = "Down" -> "Hard"
      [] level = "Hard" /\ change = "Up" -> "Medium"
      [] level = "Hard" /\ change = "Down" -> "Easy"

\* whether this frame's tick draws jitter: a game is constructed or reset
DrawsJitter(inp) ==
    \/ state = "Menu" /\ inp.space
         /\ (menu_state = "Difficulty" \/ settings.num_players = "Two")
    \/ state # "GameOver" /\ score_timer = 1

\* the process runs, and no position is NaN: the model does not follow NaN
\* arithmetic beyond the tick that produces it
Running == ~panicked /\ \A i \in PlayerIds : ~IsNaN(world[i].pos)

\* a frame in State::Menu (lines 987-1052)
MenuFrame(inp) ==
    /\ state = "Menu"
    /\ Running
    /\ LET starts == inp.space /\ (menu_state = "Difficulty"
                                     \/ settings.num_players = "Two")
           G == IF ~starts THEN TheGame
                ELSE IF menu_state = "Difficulty"
                THEN NewGame(settings.difficulty_level, Pattern, TRUE, FALSE)
                ELSE NewGame("Hard", Pattern, TRUE, TRUE)
           change == MenuChange(inp)
       IN  /\ state' = IF starts THEN "Play" ELSE "Menu"
           /\ menu_state' = IF inp.space /\ ~starts THEN "Difficulty" ELSE menu_state
           /\ settings' =
                IF inp.space \/ change = "NoChange" THEN settings
                ELSE IF menu_state = "NumPlayers"
                THEN [settings EXCEPT !.num_players = IF @ = "One" THEN "Two" ELSE "One"]
                ELSE [settings EXCEPT !.difficulty_level = NextDifficulty(@, change)]
           /\ SetGame(update(G, GameInput(inp), Pattern))
    /\ frame' = frame + 1
    /\ keys' = inp
    /\ draws' = IF DrawsJitter(inp) THEN draws + 1 ELSE draws
    /\ UNCHANGED <<script, seed, probe>>

\* the match ends one frame later, when the countdown has run out, a variant
\* of PlayFrame
PlayFrameLateEnd(inp) ==
    /\ state = "Play"
    /\ Running
    /\ state' = IF Max(teams[0].score, teams[1].score) = GOALS_TO_WIN /\ score_timer = 0
                THEN "GameOver" ELSE "Play"
    /\ SetGame(update(TheGame, GameInput(inp), Pattern))
    /\ frame' = frame + 1
    /\ keys' = inp
    /\ draws' = IF DrawsJitter(inp) THEN draws + 1 ELSE draws
    /\ UNCHANGED <<menu_state, settings, script, seed, probe>>

\* a frame in State::Play (lines 1053-1060)
PlayFrame(inp) ==
    /\ state = "Play"
    /\ Running
    /\ state' = IF Max(teams[0].score, teams[1].score) = GOALS_TO_WIN /\ score_timer = 1
                THEN "GameOver" ELSE "Play"
    /\ SetGame(update(TheGame, GameInput(inp), Pattern))
    /\ frame' = frame + 1
    /\ keys' = inp
    /\ draws' = IF DrawsJitter(inp) THEN draws + 1 ELSE draws
    /\ UNCHANGED <<menu_state, settings, script, seed, probe>>

\* a frame in State::GameOver (lines 1061-1066): the new Game is dropped
GameOverFrame(inp) ==
    /\ state = "GameOver"
    /\ ~panicked
    /\ state' = IF inp.space THEN "Menu" ELSE "GameOver"
    /\ menu_state' = IF inp.space THEN "NumPlayers" ELSE menu_state
    /\ settings' = IF inp.space THEN Settings_new ELSE settings
    /\ frame' = frame + 1
    /\ keys' = inp
    /\ draws' = IF inp.space THEN draws + 1 ELSE draws
    /\ UNCHANGED <<difficulty, camera_focus, world, gen, ball, ball_owner,
                   kickoff_player, teams, scoring_team, score_timer,
                   debug_shoot_target, shoot_now, panicked, ev, script, seed,
                   probe>>

Next ==
    \/ \E inp \in FrameKeys(script, frame) : MenuFrame(inp)
    \/ \E inp \in FrameKeys(script, frame) : PlayFrame(inp)
    \/ \E inp \in FrameKeys(script, frame) : GameOverFrame(inp)

Spec == Init /\ [][Next]_vars


---------------------------------------------------------------------------
(* allow_movement put to single points: a point is drawn, then judged      *)

\* how far beyond the level's sides the points reach, in pixels
ProbeMargin == 20

ProbeXs == {PX(x) : x \in (0 - ProbeMargin) .. ((LEVEL_W \div Scale) + ProbeMargin)}

\* the rows put to the test: the level's top and bottom edges, the goal
\* lines, the centre line, and their neighbours
ProbeYs ==
    {0 - 1, 0, 1, PX(1),
     HALF_LEVEL_H - HALF_PITCH_H - 1, HALF_LEVEL_H - HALF_PITCH_H,
     HALF_LEVEL_H - HALF_PITCH_H + 1,
     HALF_LEVEL_H,
     HALF_LEVEL_H + HALF_PITCH_H - 1, HALF_LEVEL_H + HALF_PITCH_H,
     LEVEL_H - 1, LEVEL_H, LEVEL_H + 1}

ProbeInit ==
    /\ seed = 0
    /\ script = 1
    /\ ProgramStart
    /\ probe \in {Some([x |-> x, y |-> y, allowed |-> None]) : x \in ProbeXs, y \in ProbeYs}

\* the point is put to allow_movement
Probe ==
    /\ IsSome(probe)
    /\ Unwrap(probe).allowed = None
    /\ probe' = Some([Unwrap(probe) EXCEPT
                        !.allowed = Some(allow_movement(Unwrap(probe).x, Unwrap(probe).y))])
    /\ UNCHANGED <<state, menu_state, settings, difficulty, camera_focus, world, gen,
                   ball, ball_owner, kickoff_player, teams, scoring_team, score_timer,
                   debug_shoot_target, shoot_now, panicked, ev, script, frame, keys,
                   seed, draws>>

ProbeNext == Probe

ProbeSpec == ProbeInit /\ [][ProbeNext]_vars

---------------------------------------------------------------------------
(* The lead alternation of set_behaviours put to single splits: the first  *)
(* MaxCandidates players of team 1, in query order standing for nearest     *)
(* first, are each upfield, downfield or no candidate                      *)

MaxCandidates == 5

Candidates == [k \in 1 .. MaxCandidates |-> 2 * k - 1]

Splits == [1 .. MaxCandidates -> {"up", "down", "out"}]

SplitOf(split) ==
    [upfield |-> SelectSeq(Candidates, LAMBDA i : split[(i + 1) \div 2] = "up"),
     downfield |-> SelectSeq(Candidates, LAMBDA i : split[(i + 1) \div 2] = "down"),
     alternating |-> None]

LeadInit ==
    /\ seed = 0
    /\ script = 1
    /\ ProgramStart
    /\ probe \in {Some(SplitOf(split)) : split \in Splits}

\* the split is put to the alternation of lines 465-475
RankLeads ==
    /\ IsSome(probe)
    /\ Unwrap(probe).alternating = None
    /\ probe' = Some([Unwrap(probe) EXCEPT
                        !.alternating = Some(Alternating(Unwrap(probe).upfield,
                                                         Unwrap(probe).downfield))])
    /\ UNCHANGED <<state, menu_state, settings, difficulty, camera_focus, world, gen,
                   ball, ball_owner, kickoff_player, teams, scoring_team, score_timer,
                   debug_shoot_target, shoot_now, panicked, ev, script, frame, keys,
                   seed, draws>>

LeadSpec == LeadInit /\ [][RankLeads]_vars

---------------------------------------------------------------------------
(* ball_physics put to single flights of two steps on one axis, in units of *)
(* a thousandth of a pixel: positions up to FlightSpan pixels short of the  *)
(* upper bound 504, velocities up to FlightSpan pixels per tick             *)

FlightSpan == 6

Milli(n) == n * 1000

FlightStarts ==
    {[pos |-> Milli(504 - p), vel |-> Milli(v), bounds |-> <<Milli(lo), Milli(504)>>,
      steps |-> 0, from |-> <<Milli(504 - p), Milli(v)>>, start |-> <<Milli(504 - p), Milli(v)>>] :
        p \in 0 .. FlightSpan, v \in (0 - FlightSpan) .. FlightSpan, lo \in {0, 500}}

FlightInit ==
    /\ seed = 0
    /\ script = 1
    /\ ProgramStart
    /\ probe \in {Some(f) : f \in FlightStarts}

\* one more step of free flight
Fly ==
    /\ IsSome(probe)
    /\ Unwrap(probe).steps < 2
    /\ LET f == Unwrap(probe)
           r == ball_physics(f.pos, f.vel, f.bounds)
       IN  probe' = Some([f EXCEPT !.pos = r[1], !.vel = r[2], !.steps = @ + 1,
                                   !.from = <<f.pos, f.vel>>])
    /\ UNCHANGED <<state, menu_state, settings, difficulty, camera_focus, world, gen,
                   ball, ball_owner, kickoff_player, teams, scoring_team, score_timer,
                   debug_shoot_target, shoot_now, panicked, ev, script, frame, keys,
                   seed, draws>>

FlightSpec == FlightInit /\ [][Fly]_vars

---------------------------------------------------------------------------
(* steps put to single distances: every half pixel from 0 to StepMargin     *)
(* half pixels beyond 574, each with the half pixel before it               *)

StepMargin == 8

HalfPx == Scale \div 2

StepDistances == {k * HalfPx : k \in 0 .. (2 * 574 + StepMargin)}

StepInit ==
    /\ seed = 0
    /\ script = 1
    /\ ProgramStart
    /\ probe \in {Some([distance |-> d, n |-> None, before |-> None]) : d \in StepDistances}

\* steps of the distance, and of the distance half a pixel shorter
Measure ==
    /\ IsSome(probe)
    /\ Unwrap(probe).n = None
    /\ LET d == Unwrap(probe).distance
       IN  probe' = Some([distance |-> d, n |-> Some(steps(d)),
                          before |-> IF d = 0 THEN None ELSE Some(steps(d - HalfPx))])
    /\ UNCHANGED <<state, menu_state, settings, difficulty, camera_focus, world, gen,
                   ball, ball_owner, kickoff_player, teams, scoring_team, score_timer,
                   debug_shoot_target, shoot_now, panicked, ev, script, frame, keys,
                   seed, draws>>

StepSpec == StepInit /\ [][Measure]_vars

---------------------------------------------------------------------------
(* Shot evaluation on its own: a one-player match in which player 0 of     *)
(* team 0 holds the ball about 300 px in front of the goal it attacks, in   *)
(* any facing, with teammates 2 and 4 at their starting spots or close by  *)

AimSpan == 2

\* 300 px as the hypotenuse of a 3-4-5 triangle
AimSide == Vec(PX(180), PX(240))

\* where teammate 2 may stand, seen from the owner: about 300 px away
MateSpots == {Vec(AimSide.x, AimSide.y + j) : j \in (0 - AimSpan) .. AimSpan}

AimInit ==
    /\ seed = 0
    /\ script = 1
    /\ frame = 0
    /\ keys = Idle
    /\ draws = 1
    /\ probe = None
    /\ state = "Play"
    /\ menu_state = "NumPlayers"
    /\ settings = Settings_new
    /\ \E k \in (0 - AimSpan) .. AimSpan, d \in 0 .. 7,
          m2 \in MateSpots \cup {Vec(0, 0)}, near4 \in BOOLEAN :
          LET G == NewGame("Medium", <<seed, 0>>, TRUE, FALSE)
              at == Vec(HALF_LEVEL_W, PX(300) + k)
          IN  /\ difficulty = G.difficulty
              /\ camera_focus = G.camera_focus
              /\ world = [i \in PlayerIds |->
                            IF i = 0 THEN [G.world[i] EXCEPT !.pos = at, !.dir = d]
                            ELSE IF i = 2 /\ m2 # Vec(0, 0)
                            THEN [G.world[i] EXCEPT !.pos = VAdd(at, m2)]
                            ELSE IF i = 4 /\ near4
                            THEN [G.world[i] EXCEPT !.pos = VAdd(at, Vec(PX(150), PX(150)))]
                            ELSE G.world[i]]
              /\ gen = G.gen
              /\ ball = [G.ball EXCEPT !.pos = at, !.vel = None]
              /\ ball_owner = Some(Entity(G.gen, 0))
              /\ kickoff_player = None
              /\ teams = G.teams
              /\ scoring_team = G.scoring_team
              /\ score_timer = G.score_timer
              /\ debug_shoot_target = G.debug_shoot_target
              /\ shoot_now = G.shoot_now
              /\ panicked = G.panicked
              /\ ev = G.ev

\* the shot evaluation of lines 685-779, with Space pressed or not
TakeAim ==
    /\ ev.owner_at_shot = None
    /\ IsSome(ball_owner)
    /\ \E inp \in {Idle, Space} :
          /\ keys' = inp
          /\ SetGame(Shoot(TheGame, GameInput(inp)))
    /\ UNCHANGED <<state, menu_state, settings, script, frame, seed, draws, probe>>

AimSpec == AimInit /\ [][TakeAim]_vars

---------------------------------------------------------------------------
(* The kickoff of a computer-controlled team: the Game right after          *)
(* Game::new or Game::reset, ticked until the freeze is over                *)

\* the constructions and resets that may have drawn jitter before this one
KickoffDraws == 2

\* the keys a frame of the freeze may see
KickoffKeys == {Idle, Space, LeftShift, GoRight, Hold(0, 0, 0 - 1, 0)}

\* the demo game behind the menu as constructed, or a demo or one-player game
\* as reset after a goal of team s, whenever the kickoff team has no controls
KickoffInit ==
    /\ seed \in Seeds
    /\ script = 1
    /\ frame = 0
    /\ keys = Idle
    /\ probe = None
    /\ menu_state = "NumPlayers"
    /\ settings = Settings_new
    /\ \E d \in 0 .. (KickoffDraws - 1), level \in DifficultyLevels,
          controls0 \in BOOLEAN, after_goal \in BOOLEAN, s \in 0 .. 1 :
          LET fresh == NewGame(level, <<seed, d>>, controls0, FALSE)
              scored == [fresh EXCEPT !.scoring_team = s, !.teams[s].score = 1]
              G == IF after_goal
                   THEN [reset(scored, <<seed, d>>) EXCEPT !.ev.reset = TRUE]
                   ELSE fresh
          IN  /\ ~controls0 => level = "Hard"
              /\ ~after_goal => s = 1
              /\ ~G.teams[1 - G.scoring_team].controls
              /\ state = IF controls0 THEN "Play" ELSE "Menu"
              /\ draws = d + 1
              /\ difficulty = G.difficulty
              /\ camera_focus = G.camera_focus
              /\ world = G.world
              /\ gen = G.gen
              /\ ball = G.ball
              /\ ball_owner = G.ball_owner
              /\ kickoff_player = G.kickoff_player
              /\ teams = G.teams
              /\ scoring_team = G.scoring_team
              /\ score_timer = G.score_timer
              /\ debug_shoot_target = G.debug_shoot_target
              /\ shoot_now = G.shoot_now
              /\ panicked = G.panicked
              /\ ev = G.ev

\* one frame's Game::update while the kickoff player is designated
KickoffTick ==
    /\ IsSome(kickoff_player)
    /\ Running
    /\ \E inp \in KickoffKeys :
          /\ keys' = inp
          /\ SetGame(update(TheGame, GameInput(inp), Pattern))
    /\ frame' = frame + 1
    /\ UNCHANGED <<state, menu_state, settings, script, seed, draws, probe>>

\* the main loop calls update once in every frame of Menu and Play: while the
\* process runs another frame is played.  KickoffTick is enabled exactly when
\* its two guards hold, and its steps are the steps that count a frame.
KickoffSpec ==
    /\ KickoffInit
    /\ [][KickoffTick]_vars
    /\ WF_frame(IsSome(kickoff_player) /\ Running /\ frame' = frame + 1)

---------------------------------------------------------------------------
(* Properties                                                              *)

\* C1: in the initial state and at the end of every tick the ball carries a
\* Velocity exactly when ball_owner is None, also after a scan that found two
\* or more players in capture range of an ownerless ball.
C1_VelocityIffNoOwner == IsSome(ball.vel) <=> (ball_owner = None)

\* C2: when the acquisition scan ends with an owner other than the player P
\* that owned the ball when it began, P's Timer is 60 at the end of the tick.
C2_LoserBenched ==
    \A p \in PlayerIds :
        (ev.owner_at_scan = Some(Entity(gen, p)) /\ ev.owner_at_shot # ev.owner_at_scan)
            => world[p].timer = 60

\* C3: the acquisition scan of one tick writes at most one player to
\* ball_owner.
C3_OneWritePerScan == Len(ev.scan) <= 1

\* the kick direction of the last tick's kick by player k of team t: the
\* facing vector when no target was in the cone, the vector to the goal, or
\* the lead-corrected vector to the team mate
KickDirection(k, t) ==
    IF ev.aim = "none" THEN to_vec(world[k].dir, TRIG_DEN)
    ELSE IF ev.aim = "goal" THEN VSub(Vec(HALF_LEVEL_W, t * LEVEL_H), world[k].pos)
    ELSE ev.shoot_vec

\* v has the length len to within a tenth of a pixel, and the direction of d
\* to within the rounding of its coordinates
AlongWithLength(v, d, len) ==
    /\ Abs(SqLen(v) - len * len) <= 2 * len * Tenths(1)
    /\ Dot(v, d) > 0
    /\ Abs(v.x * d.y - v.y * d.x) <= Abs(d.x) + Abs(d.y)

\* C4: when shot evaluation finds the ball owned by a player of a human team
\* whose shoot control is pressed, then after the tick ball_owner is None, the
\* kicker's Timer is 10 and the ball's Velocity has magnitude 11.5 along the
\* kick direction, which is the owner's facing vector when no target lies in
\* the forward cone.
C4_Kick ==
    \A k \in PlayerIds :
        LET t == world[k].team
        IN  (ev.owner_at_shot = Some(Entity(gen, k)) /\ teams[t].controls /\ ev.shoot[t])
                => /\ ball_owner = None
                   /\ world[k].timer = 10
                   /\ IsSome(ball.vel)
                   /\ AlongWithLength(Unwrap(ball.vel), KickDirection(k, t), KICK_STRENGTH)

\* a human player kicked with no target in the forward cone
C4_KickAhead == IsSome(ev.kicker) /\ ev.aim = "none" /\ ball_owner = None

\* C5: the tick in which the score countdown reaches 0 resets the match: the
\* ball is at the level centre with zero velocity and no owner, there are 7
\* players per team, every Timer is 0, the camera is at the level centre, and
\* the kickoff player is the active player of team 1 - scoring_team.
C5_FullReset ==
    ev.reset =>
        /\ score_timer = 0
        /\ ball = build_ball
        /\ ball_owner = None
        /\ DOMAIN world = PlayerIds
        /\ \A t \in 0 .. 1 : Cardinality({i \in PlayerIds : world[i].team = t}) = 7
        /\ \A i \in PlayerIds : world[i].timer = 0
        /\ camera_focus = Vec(HALF_LEVEL_W, HALF_LEVEL_H)
        /\ IsSome(kickoff_player)
        /\ Unwrap(kickoff_player).gen = gen
        /\ world[Unwrap(kickoff_player).idx].team = 1 - scoring_team
        /\ teams[1 - scoring_team].active_player = kickoff_player

\* a reset after a goal of team 0: team 1 kicks off
C5_ResetDone == ev.reset /\ gen > 0 /\ scoring_team = 0 /\ state = "Play"

\* the tick of this step runs update on the Game of the step before
SameGameTicks == state # "GameOver" /\ ~(state = "Menu" /\ state' = "Play")

ScoreChanges == \E t \in 0 .. 1 : teams'[t].score # teams[t].score

\* C6: a goal is counted only while the countdown is negative and adds
\* exactly 1 to exactly one score; from the tick after the goal the countdown
\* runs 60 ticks in which no goal is counted wherever the ball is, and the
\* reset fires on the 60th, and at no other tick.
C6_GoalThenReset ==
    [][SameGameTicks =>
          /\ ScoreChanges =>
                /\ score_timer <= 0
                /\ score_timer' = 60
                /\ \E t \in 0 .. 1 :
                      /\ teams'[t].score = teams[t].score + 1
                      /\ teams'[1 - t].score = teams[1 - t].score
          /\ score_timer \in 2 .. 60 =>
                ~ScoreChanges /\ score_timer' = score_timer - 1 /\ gen' = gen
          /\ score_timer = 1 =>
                ~ScoreChanges /\ score_timer' = 0 /\ gen' = gen + 1 /\ ev'.reset
          /\ gen' # gen => score_timer = 1]_vars

\* the countdown runs while the ball lies behind a goal line
C6_Celebration ==
    /\ score_timer \in 1 .. 59
    /\ Abs(ball.pos.y - HALF_LEVEL_H) > HALF_PITCH_H
    /\ teams[0].score + teams[1].score > 0

\* C7: every player's Timer is within 0..60 and the ball's within 0..120,
\* whatever the difficulty, and the decay leaves a Timer of 0 at 0.
C7_TimerRanges ==
    /\ \A i \in PlayerIds : world[i].timer \in 0 .. 60
    /\ ball.timer \in 0 .. 120
    /\ \A i \in PlayerIds :
          world[i].timer = 0 => DecayTimers(TheGame).world[i].timer = 0
    /\ ball.timer = 0 => DecayTimers(TheGame).ball.timer = 0

\* a tackle on Easy: the ball's Timer at 120, the loser's at 60
C7_TackleOnEasy ==
    /\ difficulty.holdoff_timer = 120
    /\ ball.timer = 120
    /\ \E i \in PlayerIds : world[i].timer = 60

\* C8: after construction and at the end of every tick, each team's
\* active_player is populated and names an existing player of that team.
C8_ActivePlayers ==
    \A t \in 0 .. 1 :
        /\ IsSome(teams[t].active_player)
        /\ Unwrap(teams[t].active_player).gen = gen
        /\ Unwrap(teams[t].active_player).idx \in PlayerIds
        /\ world[Unwrap(teams[t].active_player).idx].team = t

\* after a reset, an acquisition, kick or switch has moved a team's control
C8_ControlMoved ==
    /\ gen > 0
    /\ \E t \in 0 .. 1 : teams[t].active_player # Some(Entity(gen, t))

\* C9: at the end of every tick every player is inside the level
\* (0 <= x <= 1000, 0 < y < 1400) and, where |x - 500| < 113, has
\* |y - 700| < 622.
C9_PlayersInBounds ==
    \A i \in PlayerIds :
        LET p == world[i].pos
        IN  /\ 0 <= p.x /\ p.x <= LEVEL_W
            /\ 0 < p.y /\ p.y < LEVEL_H
            /\ Abs(p.x - HALF_LEVEL_W) < HALF_GOAL_W + PX(20)
                  => Abs(p.y - HALF_LEVEL_H) < HALF_PITCH_H

\* a player in front of a goal whose step towards it was refused
C9_HeldAtGoalLine ==
    \E i \in PlayerIds :
        /\ Abs(world[i].pos.x - HALF_LEVEL_W) < HALF_GOAL_W + PX(20)
        /\ world[i].tpos = VAdd(world[i].pos, Vec(0, MAX_SPEED))
        /\ ~allow_movement(world[i].pos.x, world[i].pos.y + world[i].tspeed)

\* the band of x in front of the goals
InGoalBand(x) == Abs(x - HALF_LEVEL_W) < HALF_GOAL_W + PX(20)
InLevelX(x) == 0 <= x /\ x <= LEVEL_W

RankIn(a, i) == IndexOf(a, i) - 1

\* C11: the ranked lead list alternates the nearest-first upfield and
\* downfield lists, upfield first, missing entries skipped: the i-th upfield
\* candidate is ranked before the i-th downfield candidate, which is ranked
\* before the (i+1)-th upfield candidate; upfield [A, B] and downfield [C]
\* give the ranks A = 0, C = 1, B = 2.
C11_UpfieldFirst ==
    (IsSome(probe) /\ IsSome(Unwrap(probe).alternating)) =>
        LET up == Unwrap(probe).upfield
            down == Unwrap(probe).downfield
            a == Unwrap(Unwrap(probe).alternating)
        IN  /\ \A k \in 1 .. Len(a) : IndexOf(up \o down, a[k]) > 0
            /\ \A i \in 1 .. Len(up) :
                  i <= Len(down) =>
                      /\ RankIn(a, up[i]) >= 0
                      /\ RankIn(a, up[i]) < RankIn(a, down[i])
            /\ \A i \in 1 .. Len(down) :
                  i + 1 <= Len(up) =>
                      /\ RankIn(a, down[i]) >= 0
                      /\ RankIn(a, down[i]) < RankIn(a, up[i + 1])
            /\ (up = <<1, 3>> /\ down = <<5>>) => a = <<1, 5, 3>>

\* upfield [A, B] and downfield [C] were ranked
C11_TwoUpOneDown ==
    /\ IsSome(probe)
    /\ Unwrap(probe).upfield = <<1, 3>>
    /\ Unwrap(probe).downfield = <<5>>
    /\ IsSome(Unwrap(probe).alternating)

\* r is 0.98 * v, to within the last unit
DraggedFrom(v, r) ==
    /\ Abs(DRAG_DEN * r - DRAG_NUM * v) < DRAG_DEN
    /\ r * v >= 0

\* C12: one step of ball_physics returns position + velocity when the sum
\* lies inside the closed bound interval and otherwise the unchanged position
\* with the velocity negated, the velocity scaled by 0.98 either way; from
\* position 500, velocity 5, bounds (0, 504) the first step gives 500 and
\* -4.9, the second 495.1 and -4.802.
C12_FlightStep ==
    (IsSome(probe) /\ Unwrap(probe).steps > 0) =>
        LET f == Unwrap(probe)
            moved == f.from[1] + f.from[2]
            inside == f.bounds[1] <= moved /\ moved <= f.bounds[2]
        IN  /\ inside => (f.pos = moved /\ DraggedFrom(f.from[2], f.vel))
            /\ ~inside => (f.pos = f.from[1] /\ DraggedFrom(0 - f.from[2], f.vel))
            /\ (f.start = <<Milli(500), Milli(5)>> /\ f.bounds = <<0, Milli(504)>>) =>
                  /\ f.steps = 1 => (f.pos = Milli(500) /\ f.vel = 0 - 4900)
                  /\ f.steps = 2 => (f.pos = 495100 /\ f.vel = 0 - 4802)

\* the flight from 500 at 5 within (0, 504) has bounced and flown on
C12_BouncedBack ==
    /\ IsSome(probe)
    /\ Unwrap(probe).start = <<Milli(500), Milli(5)>>
    /\ Unwrap(probe).bounds = <<0, Milli(504)>>
    /\ Unwrap(probe).steps = 2

\* C13: steps(d) does not decrease as d grows over 0 <= d < 574, is 190 for
\* every d >= 574, and steps(0) = 0.
C13_StepsShape ==
    (IsSome(probe) /\ IsSome(Unwrap(probe).n)) =>
        LET d == Unwrap(probe).distance
            n == Unwrap(Unwrap(probe).n)
        IN  /\ (d < PX(574) /\ IsSome(Unwrap(probe).before))
                  => Unwrap(Unwrap(probe).before) <= n
            /\ d >= PX(574) => n = 190
            /\ d = 0 => n = 0

\* the distance 574 was measured, and the half pixel before it
C13_AtTheCap ==
    /\ IsSome(probe)
    /\ Unwrap(probe).distance = PX(574)
    /\ Unwrap(probe).n = Some(190)
    /\ IsSome(Unwrap(probe).before)

\* the reference names a player of the world as it is now
Exists(e) == e.gen = gen /\ e.idx \in PlayerIds

\* C14: no lookup of an entity or component fails: no unwrap has failed, an
\* ownerless ball carries a Velocity, and ball_owner, kickoff_player, both
\* active_player references and every Peer and Mark reference name players
\* that exist, on and after reset ticks too.
C14_LookupsSucceed ==
    /\ ~panicked
    /\ ball_owner = None => IsSome(ball.vel)
    /\ IsSome(ball_owner) => Exists(Unwrap(ball_owner))
    /\ IsSome(kickoff_player) => Exists(Unwrap(kickoff_player))
    /\ \A t \in 0 .. 1 :
          IsSome(teams[t].active_player) => Exists(Unwrap(teams[t].active_player))
    /\ \A i \in PlayerIds :
          /\ Exists(world[i].peer)
          /\ world[i].mark.kind = "Player" => Exists(world[i].mark.id)

\* after a reset, an acquisition has taken the Velocity off an ownerless ball
C14_AcquiredAfterReset ==
    /\ gen > 0
    /\ ev.owner_at_scan = None
    /\ ev.scan # << >>
    /\ ball.vel = None
    /\ ~panicked

\* the players that carry a lead distance
Leads == {i \in PlayerIds : IsSome(world[i].lead_dist)}

\* C15: after set_behaviours, with no owner no player has a lead distance or
\* rank; with an owner the player ranked 0 has lead distance 10, the player
\* ranked 1 has 50 exactly when the second lead is enabled, nobody else has a
\* lead distance: at most two players carry one, one on Easy.
C15_LeadDistances ==
    /\ ev.plan_owner = None =>
          \A i \in PlayerIds : world[i].lead_dist = None /\ world[i].lead_rank = None
    /\ IsSome(ev.plan_owner) =>
          /\ \A i \in PlayerIds :
                /\ world[i].lead_rank = Some(0) => world[i].lead_dist = Some(LEAD_DISTANCE_1)
                /\ world[i].lead_rank = Some(1) =>
                      world[i].lead_dist = IF difficulty.second_lead_enabled
                                           THEN Some(LEAD_DISTANCE_2) ELSE None
                /\ world[i].lead_rank \notin {Some(0), Some(1)} => world[i].lead_dist = None
          /\ \A i, j \in PlayerIds :
                (IsSome(world[i].lead_rank) /\ world[i].lead_rank = world[j].lead_rank)
                    => i = j
          /\ Cardinality(Leads) <= IF difficulty.second_lead_enabled THEN 2 ELSE 1

\* an owned ball on Easy: a player ranked 0 with a lead distance, a player
\* ranked 1 without
C15_OneLeadOnEasy ==
    /\ IsSome(ev.plan_owner)
    /\ ~difficulty.second_lead_enabled
    /\ \E i, j \in PlayerIds :
          /\ world[i].lead_rank = Some(0) /\ world[i].lead_dist = Some(LEAD_DISTANCE_1)
          /\ world[j].lead_rank = Some(1) /\ world[j].lead_dist = None

\* player i holds a lead rank or a lead distance
HasLead(i) == IsSome(world[i].lead_rank) \/ IsSome(world[i].lead_dist)

\* player i was the active player of a human team when the tick was planned
HumanActive(i) ==
    teams[world[i].team].controls /\ ev.plan_active[world[i].team] = Some(Entity(gen, i))

\* C16: after set_behaviours every player with a lead rank or distance is on
\* the team opposite the ball owner, has Timer 0, is not the active player of
\* a human team and is not the goalie: its Mark is a player.
C16_LeadsEligible ==
    \A i \in PlayerIds :
        HasLead(i) =>
            /\ IsSome(ev.plan_owner)
            /\ world[i].team = 1 - world[Unwrap(ev.plan_owner).idx].team
            /\ ev.plan_timer[i] = 0
            /\ ~HumanActive(i)
            /\ world[i].mark.kind = "Player"

\* a human team defends with a goalie: its active player and its goalie hold
\* no lead, another of its players does
C16_HumanDefends ==
    /\ IsSome(ev.plan_owner)
    /\ \E i, j, k \in PlayerIds :
          /\ world[i].team = world[j].team /\ world[j].team = world[k].team
          /\ HumanActive(i) /\ ~HasLead(i)
          /\ world[j].mark.kind = "Goal" /\ ~HasLead(j)
          /\ HasLead(k)

\* the lead candidates of the planned tick: the defenders with Timer 0 that
\* are neither the active player of a human team nor the goalie
LeadCandidates ==
    {i \in PlayerIds :
        /\ world[i].team = 1 - world[Unwrap(ev.plan_owner).idx].team
        /\ ev.plan_timer[i] <= 0
        /\ ~HumanActive(i)
        /\ world[i].mark.kind = "Player"}

\* C17: when the ball is owned every eligible lead candidate receives a
\* rank, and the ranks given are exactly 0 .. n-1 for n candidates, however
\* they are split between upfield and downfield.
C17_AllRanked ==
    IsSome(ev.plan_owner) =>
        {world[i].lead_rank : i \in LeadCandidates}
            = {Some(r) : r \in 0 .. (Cardinality(LeadCandidates) - 1)}

\* the players that mark the goal point
Goalies == {i \in PlayerIds : world[i].mark.kind = "Goal"}

\* the goal a team defends: team 0 scores at y = 0, so that is team 1's own
OwnGoal(t) == Vec(HALF_LEVEL_W, IF t = 0 THEN LEVEL_H ELSE 0)

\* with no owner, or without goalkeeping, every player marks its peer
MarksByDefault ==
    (ev.plan_owner = None \/ ~difficulty.goalie_enabled) =>
        \A i \in PlayerIds : world[i].mark = MarkPlayer(world[i].peer)

\* exactly one player marks the goal point: the defender that was nearest its
\* own goal; no defender marks the owner; the rest mark their peers
OneGoalie(owner) ==
    LET defending_team == 1 - world[owner].team
    IN  /\ Cardinality(Goalies) = 1
        /\ \A g \in Goalies :
              /\ world[g].team = defending_team
              /\ world[g].mark.pos = OwnGoal(defending_team)
              /\ \A j \in PlayerIds :
                    world[j].team = defending_team =>
                        SqLen(VSub(ev.plan_pos[g], OwnGoal(defending_team)))
                            <= SqLen(VSub(ev.plan_pos[j], OwnGoal(defending_team)))
        /\ \A i \in PlayerIds :
              /\ world[i].team = defending_team
                    => world[i].mark # MarkPlayer(Entity(gen, owner))
              /\ (i \notin Goalies /\ i # world[owner].peer.idx)
                    => world[i].mark = MarkPlayer(world[i].peer)

\* C18: after set_behaviours, with no owner or without goalkeeping every
\* player marks its peer; with an owner and goalkeeping exactly one player
\* marks the goal point, the defender nearest its own goal, the owner's peer
\* marks what the goalie marked before the swap, no defender marks the
\* owner, and every other player marks its peer.
C18_AsStated ==
    /\ MarksByDefault
    /\ (IsSome(ev.plan_owner) /\ difficulty.goalie_enabled) =>
          LET owner == Unwrap(ev.plan_owner).idx
          IN  /\ OneGoalie(owner)
              /\ \A g \in Goalies :
                    world[world[owner].peer.idx].mark = MarkPlayer(world[g].peer)

\* C18, amended: as stated, except that the owner's peer marks what the
\* goalie marked before the swap only when it is not itself the goalie; when
\* it is, it marks the goal point and nobody takes over its mark.
C18_GoalieSwap ==
    /\ MarksByDefault
    /\ (IsSome(ev.plan_owner) /\ difficulty.goalie_enabled) =>
          LET owner == Unwrap(ev.plan_owner).idx
          IN  /\ OneGoalie(owner)
              /\ \A g \in Goalies :
                    g # world[owner].peer.idx =>
                        world[world[owner].peer.idx].mark = MarkPlayer(world[g].peer)

\* the owner's peer is itself the goalie
C18_PeerKeepsGoal ==
    /\ IsSome(ev.plan_owner)
    /\ difficulty.goalie_enabled
    /\ world[Unwrap(ev.plan_owner).idx].peer.idx \in Goalies

\* the players that wait for the kickoff in the tick that just ran
Waiting ==
    {i \in PlayerIds : IsSome(ev.plan_kickoff) /\ Unwrap(ev.plan_kickoff).idx # i}

\* C19, as stated: in any tick that starts its target-planning phase with a
\* kickoff player designated, every player other than the kickoff player has
\* the same position after the tick as before it.
C19_AsStated ==
    [][SameGameTicks =>
          (IsSome(ev'.plan_kickoff) =>
              \A i \in PlayerIds :
                  Unwrap(ev'.plan_kickoff).idx # i => world'[i].pos = world[i].pos)]_vars

\* C19, amended: in any tick that starts its target-planning phase with a
\* kickoff player designated, every player other than the kickoff player has
\* the same position after the tick as at the start of the planning phase
\* (a reset earlier in the tick has put the players on their starting spots).
C19_KickoffFreeze == \A i \in Waiting : world[i].pos = ev.plan_pos[i]

\* in a match, the kickoff player walked in a tick in which the others had to
\* wait, one of them the other team's active player
C19_OnlyKickoffMoves ==
    /\ state = "Play"
    /\ Waiting # {}
    /\ ~ev.reset
    /\ world[Unwrap(ev.plan_kickoff).idx].pos # ev.plan_pos[Unwrap(ev.plan_kickoff).idx]
    /\ \E i \in Waiting : ev.plan_active[world[i].team] = Some(Entity(gen, i))

\* C20: once any player has acquired the ball after a start or reset,
\* kickoff_player is empty by the end of the following tick at the latest,
\* also when the ball was kicked away in the tick of the acquisition.
C20_ClearedAfterAcquisition ==
    [][(SameGameTicks /\ ev.scan # << >> /\ ~panicked' /\ ~ev'.reset)
          => kickoff_player' = None]_vars

\* the same, for the acquisitions that were not kicked away in their tick
C20_ClearedWhileOwned ==
    [][(SameGameTicks /\ ev.scan # << >> /\ ev.kicker = None /\ ~panicked' /\ ~ev'.reset)
          => kickoff_player' = None]_vars

\* the octants from facing a to facing b, the shorter way round
Apart(a, b) == Min((b - a) % 8, (a - b) % 8)

\* C21: in every tick each player's facing stays in the octants 0..7 and
\* changes by at most one octant (mod 8); a facing that differed from the
\* desired facing is exactly one octant nearer to it afterwards, the shorter
\* way round and clockwise when the desired facing is directly opposite; a
\* facing that equalled the desired facing is unchanged.
C21_TurnsOneOctant ==
    /\ \A i \in PlayerIds : world[i].dir \in 0 .. 7
    /\ ev.face_from # None =>
          \A i \in PlayerIds :
              LET was == ev.face_from[i]
                  want == ev.face_want[i]
                  now == world[i].dir
              IN  /\ want \in 0 .. 7
                  /\ Apart(was, now) <= 1
                  /\ was = want => now = was
                  /\ was # want => Apart(now, want) = Apart(was, want) - 1
                  /\ Apart(was, want) = 4 => now = (was + 1) % 8

\* in one tick one player turned clockwise, one anticlockwise, one turned
\* from the facing opposite to the one it wanted, and one kept its facing
C21_AllTurns ==
    /\ state = "Play"
    /\ ev.face_from # None
    /\ \E i, j, k, l \in PlayerIds :
          /\ world[i].dir = (ev.face_from[i] + 1) % 8
          /\ world[j].dir = (ev.face_from[j] + 7) % 8
          /\ Apart(ev.face_from[k], ev.face_want[k]) = 4
          /\ ev.face_from[l] = ev.face_want[l]

\* C22: when the eased dribble position of an owned ball is outside the
\* legal area, then in that tick the ball's position is left unchanged, the
\* owner loses possession and gets Timer 60, no player of its team acquires
\* the ball, and, unless an opposing player acquires it, the tick ends with
\* no owner and the ball's Velocity 3 times the former owner's unit facing.
C22_DribbledOff ==
    [][(SameGameTicks /\ IsSome(ev'.dribbled_off)) =>
          LET o == Unwrap(ev'.dribbled_off)
          IN  /\ ball_owner = Some(Entity(gen, o))
              /\ ~on_pitch(avg(ball.pos.x, world'[o].pos.x
                                  + DivR(DRIBBLE_DIST_X * AngleSin(world'[o].dir), TRIG_DEN)),
                            avg(ball.pos.y, world'[o].pos.y
                                  - DivR(DRIBBLE_DIST_Y * AngleCos(world'[o].dir), TRIG_DEN)))
              /\ ball'.pos = ball.pos
              /\ ball_owner' # Some(Entity(gen, o))
              /\ world'[o].timer = 60
              /\ \A k \in 1 .. Len(ev'.scan) :
                    world'[ev'.scan[k]].team # world'[o].team
              /\ ev'.scan = << >> =>
                    /\ ball_owner' = None
                    /\ ball'.vel = Some(Vec(DivR(AngleSin(world'[o].dir) * PX(3), TRIG_DEN),
                                            DivR((0 - AngleCos(world'[o].dir)) * PX(3),
                                                 TRIG_DEN)))]_vars

\* a human's player has dribbled the ball off the pitch and the ball is loose
C22_LostOverTheLine ==
    /\ state = "Play"
    /\ IsSome(ev.dribbled_off)
    /\ ball_owner = None
    /\ world[Unwrap(ev.dribbled_off)].timer = 60

\* the candidates of the owner o: every other player of its team and the
\* centre of the goal it attacks
AimCandidates(o) ==
    {world[i].pos : i \in {j \in PlayerIds : j # o /\ world[j].team = world[o].team}}
      \cup {Vec(HALF_LEVEL_W, world[o].team * LEVEL_H)}

\* the direction from o to p has dot-product > 0.8 with o's facing
InCone(o, p) ==
    LET v == VSub(p, world[o].pos)
    IN  v.x * AngleSin(world[o].dir) - v.y * AngleCos(world[o].dir)
          > ((8 * TRIG_DEN) \div 10) * Length(v)

\* debug_shoot_target is the nearest to o of the points in eligible, and
\* empty when there is none
AimIsNearest(o, eligible) ==
    IF eligible = {} THEN debug_shoot_target = None
    ELSE /\ IsSome(debug_shoot_target)
         /\ Unwrap(debug_shoot_target) \in eligible
         /\ \A p \in eligible :
               SqLen(VSub(Unwrap(debug_shoot_target), world[o].pos))
                  <= SqLen(VSub(p, world[o].pos))

\* C23: the aim point evaluated for the ball owner is the nearest of the
\* candidates (every other teammate and the opposing goal centre) inside the
\* forward cone (dot-product > 0.8) at a distance d with 0 < d <= 300, a
\* candidate at exactly 300 included; there is none when no candidate passes.
C23_AimWithin300 ==
    IsSome(ev.owner_at_shot) =>
        LET o == Unwrap(ev.owner_at_shot).idx
        IN  AimIsNearest(o, {p \in AimCandidates(o) :
                                /\ InCone(o, p)
                                /\ SqLen(VSub(p, world[o].pos)) > 0
                                /\ SqLen(VSub(p, world[o].pos)) <= PX(300) * PX(300)})

\* the same with the distance strictly below 300
C23_AimBelow300 ==
    IsSome(ev.owner_at_shot) =>
        LET o == Unwrap(ev.owner_at_shot).idx
        IN  AimIsNearest(o, {p \in AimCandidates(o) :
                                /\ InCone(o, p)
                                /\ SqLen(VSub(p, world[o].pos)) > 0
                                /\ SqLen(VSub(p, world[o].pos)) < PX(300) * PX(300)})

\* C24: at the end of a tick in which a team kicked the ball at a chosen
\* teammate, that team's active player is that teammate: the team switch
\* of the same tick, triggered by the same shoot press, leaves it alone.
C24_PassTargetActive ==
    (IsSome(ev.kicker) /\ ev.aim = "player") =>
        LET k == Unwrap(ev.kicker)
            t == world[k].team
        IN  /\ shoot_now[t]
            /\ IsSome(teams[t].active_player)
            /\ LET a == Unwrap(teams[t].active_player).idx
               IN  /\ Unwrap(teams[t].active_player).gen = gen
                   /\ a # k
                   /\ world[a].team = t
                   /\ debug_shoot_target = Some(world[a].pos)

\* a pass after the kickoff freeze, by the player of its team nearest the
\* ball, the one a team switch would have picked
C24_PassByNearest ==
    /\ state = "Play"
    /\ IsSome(ev.kicker)
    /\ ev.aim = "player"
    /\ kickoff_player = None
    /\ ev.shoot[world[Unwrap(ev.kicker)].team]
    /\ \A j \in PlayerIds :
          world[j].team = world[Unwrap(ev.kicker)].team =>
              SqLen(VSub(world[Unwrap(ev.kicker)].pos, ball.pos))
                 <= SqLen(VSub(world[j].pos, ball.pos))

\* the point 250 px ahead of the kicker k along the kick direction
Ahead(k) == VAdd(world[k].pos, to_vec(ev.kick_dir, PX(250)))

\* a is, of the players in among, one nearest to the point ahead of k
NearestAhead(a, k, among) ==
    /\ a \in among
    /\ \A j \in among :
          SqLen(VSub(world[a].pos, Ahead(k))) <= SqLen(VSub(world[j].pos, Ahead(k)))

\* C25: when the owner kicks with no candidate target in the cone, the
\* owning team's active player becomes the kicker's teammate, a player of
\* its team other than the kicker, nearest to the point 250 px ahead of the
\* kicker along the kick direction.
C25_FallbackTeammate ==
    (IsSome(ev.kicker) /\ ev.aim = "none") =>
        LET k == Unwrap(ev.kicker)
            t == world[k].team
        IN  /\ IsSome(teams[t].active_player)
            /\ NearestAhead(Unwrap(teams[t].active_player).idx, k,
                            {j \in PlayerIds : world[j].team = t /\ j # k})

\* the same with the kicker among the players to choose from
C25_FallbackWithKicker ==
    (IsSome(ev.kicker) /\ ev.aim = "none") =>
        LET k == Unwrap(ev.kicker)
            t == world[k].team
        IN  /\ IsSome(teams[t].active_player)
            /\ NearestAhead(Unwrap(teams[t].active_player).idx, k,
                            {j \in PlayerIds : world[j].team = t})

\* C26: a player that kicked the ball on tick T is not the ball owner at the
\* end of any of the ticks T+1 .. T+9, and a player that lost possession on
\* tick T, to an opponent's acquisition or by dribbling off the pitch, is
\* not the ball owner at the end of any of the ticks T+1 .. T+59, absent a
\* reset.
C26_Cooldowns ==
    \A i \in PlayerIds :
        (ev.kicked_ago[i] \in 1 .. 9 \/ ev.lost_ago[i] \in 1 .. 59)
            => ball_owner # Some(Entity(gen, i))

\* the cooldown of the kick alone
C26_KickCooldown ==
    \A i \in PlayerIds :
        ev.kicked_ago[i] \in 1 .. 9 => ball_owner # Some(Entity(gen, i))

\* C27: the team credited with a goal is the team attacking that end: a goal
\* detected with the ball beyond the top end (y < 78) adds to team 0's
\* score and one beyond the bottom end (y > 1322) to team 1's, which is the
\* end of the goal centre each team shoots at (y = team index x level
\* height); the conceding team is given the following kickoff.
C27_GoalCredit ==
    [][SameGameTicks =>
          /\ ev'.goal =>
                LET t == IF ball.pos.y < PX(78) THEN 0 ELSE 1
                IN  /\ ball.pos.y < PX(78) \/ ball.pos.y > PX(1322)
                    /\ scoring_team' = t
                    /\ teams'[t].score = teams[t].score + 1
                    /\ teams'[1 - t].score = teams[1 - t].score
          /\ (IsSome(ev'.kicker) /\ ev'.aim = "goal") =>
                debug_shoot_target'
                   = Some(Vec(HALF_LEVEL_W, world'[Unwrap(ev'.kicker)].team * LEVEL_H))
          /\ ev'.reset =>
                /\ scoring_team' = scoring_team
                /\ kickoff_player' = Some(Entity(gen', 1 - scoring_team))
                /\ world'[1 - scoring_team].team = 1 - scoring_team
       ]_vars

\* team 0 has shot into the top goal and leads 1-0; team 1 kicks off
C27_TopGoalToTeam0 ==
    /\ state = "Play"
    /\ ev.reset
    /\ scoring_team = 0
    /\ teams[0].score = 1
    /\ teams[1].score = 0
    /\ kickoff_player = Some(Entity(gen, 1))

\* C28: in every reachable state the ball's position lies in the legal
\* area: the pitch rectangle (58 <= x <= 942, 78 <= y <= 1322) or one of
\* the goal boxes (407 <= x <= 593 with 58 <= y <= 1342), also in diagonal
\* flight near a goal post.
C28_BallInLegalArea ==
    \/ /\ ball.pos.x >= PX(58) /\ ball.pos.x <= PX(942)
       /\ ball.pos.y >= PX(78) /\ ball.pos.y <= PX(1322)
    \/ /\ ball.pos.x >= PX(407) /\ ball.pos.x <= PX(593)
       /\ ball.pos.y >= PX(58) /\ ball.pos.y <= PX(1342)

\* C29: whenever check_goals counts a goal, the ball is horizontally inside
\* the goal mouth (407 <= x <= 593).
C29_GoalInsideMouth ==
    [][(SameGameTicks /\ ev'.goal) =>
          (ball.pos.x >= PX(407) /\ ball.pos.x <= PX(593))]_vars

\* C30: at the end of every tick, if the ball has an owner then that owner
\* is the active player of its own team, whatever acquisitions, kicks and
\* team-switch presses the ticks have seen.
C30_OwnerIsActive ==
    IsSome(ball_owner) =>
        /\ Unwrap(ball_owner).gen = gen
        /\ teams[world[Unwrap(ball_owner).idx].team].active_player = ball_owner

\* the ball is owned at the end of a tick in which the other team's shoot
\* press switched that team's active player
C30_OwnedThroughSwitch ==
    /\ state = "Play"
    /\ IsSome(ball_owner)
    /\ kickoff_player = None
    /\ \E t \in 0 .. 1 : ev.shoot[t] /\ teams[t].controls /\ ~shoot_now[t]

\* C31 as stated: possession never passes directly between teammates, and a
\* teammate of an owner obtains the ball only after a tick end at which the
\* ball had no owner: the owners of an unbroken stretch of owned tick ends are
\* pairwise of different teams
C31_AsStated ==
    \A j, k \in 1 .. Len(ev.owners) :
        ev.owners[j] # ev.owners[k]
            => world[ev.owners[j]].team # world[ev.owners[k]].team

\* C31 amended: possession never passes directly between teammates, and a
\* teammate of an owner obtains the ball only after a tick end at which the
\* ball had no owner or an opponent owned it: successive owners of an
\* unbroken stretch of owned tick ends are of different teams
C31_NoDirectHandover ==
    \A j \in 1 .. Len(ev.owners) - 1 :
        world[ev.owners[j]].team # world[ev.owners[j + 1]].team

\* a teammate of an earlier owner has the ball back from the opponent that
\* took it, with no tick end without an owner in between
C31_WonBackByTeammate ==
    /\ state = "Play"
    /\ Len(ev.owners) >= 3
    /\ LET o == ev.owners
       IN  /\ o[Len(o)] # o[Len(o) - 2]
           /\ world[o[Len(o)]].team = world[o[Len(o) - 2]].team
    /\ ev.scan # << >>

\* the fields of the Game
GameVars ==
    <<difficulty, camera_focus, world, gen, ball, ball_owner, kickoff_player,
      teams, scoring_team, score_timer, debug_shoot_target, shoot_now>>

\* C32: while the match is in Play neither score exceeds GOALS_TO_WIN; the
\* state becomes GameOver from Play when a score is GOALS_TO_WIN and the
\* celebration countdown is at its last tick, and only then, and no score
\* changes on that frame; a frame in GameOver leaves the Game as it is.
C32_MatchEnds ==
    [][/\ state' = "Play" =>
             \A t \in 0 .. 1 : teams'[t].score <= GOALS_TO_WIN
       /\ state = "Play" =>
             /\ state' = "GameOver" <=>
                   /\ Max(teams[0].score, teams[1].score) = GOALS_TO_WIN
                   /\ score_timer = 1
             /\ state' = "GameOver" => ~ScoreChanges
       /\ state' = "GameOver" => state \in {"Play", "GameOver"}
       /\ state = "GameOver" => UNCHANGED GameVars]_vars

\* the match is over at 9 goals, and a frame has passed in GameOver
C32_MatchOver ==
    /\ state = "GameOver"
    /\ Max(teams[0].score, teams[1].score) = GOALS_TO_WIN
    /\ ev.reset
    /\ keys = Idle

\* C33: within one Game a score never decreases and changes only when a goal
\* is detected (the countdown negative, the ball beyond a goal line), then by
\* +1 for one team; a tick that detects no goal leaves both scores as they
\* were; a reset leaves both scores, both teams' controls and the difficulty
\* as they were.
C33_ScoresOnlyGrow ==
    [][SameGameTicks =>
          LET detected == /\ score_timer - 1 < 0
                          /\ Abs(ball.pos.y - HALF_LEVEL_H) > HALF_PITCH_H
          IN  /\ \A t \in 0 .. 1 : teams'[t].score >= teams[t].score
              /\ ScoreChanges <=> detected
              /\ ScoreChanges =>
                    \E t \in 0 .. 1 :
                        /\ teams'[t].score = teams[t].score + 1
                        /\ teams'[1 - t].score = teams[1 - t].score
              /\ ev'.reset =>
                    /\ ~ScoreChanges
                    /\ \A t \in 0 .. 1 : teams'[t].controls = teams[t].controls
                    /\ difficulty' = difficulty]_vars

\* a reset in a match with a human team and a goal on the board
C33_ResetKeepsScore ==
    /\ state = "Play"
    /\ ev.reset
    /\ teams[0].controls
    /\ \E t \in 0 .. 1 : teams[t].score > 0
    /\ difficulty # get_difficulty("Hard")

\* the ticks the kickoff player needs from its spot 30 px beside the ball to
\* within DRIBBLE_DIST_X of it, and one more to clear kickoff_player
KickoffWalk == ((PX(30) - DRIBBLE_DIST_X) \div PLAYER_INTERCEPT_BALL_SPEED) + 2

\* C34: when the kickoff team has no controls, the freeze ends: while
\* kickoff_player is designated only the kickoff player acquires the ball, it
\* does so within KickoffWalk ticks of the start or reset whatever keys are
\* held, a tick that begins with the ball owned ends with kickoff_player
\* empty, and a designated kickoff player always leads to an empty
\* kickoff_player.
C34_CpuKickoffEnds ==
    /\ [][IsSome(kickoff_player) =>
             /\ frame' <= KickoffWalk
             /\ ~panicked'
             /\ \A k \in 1 .. Len(ev'.scan) : Entity(gen, ev'.scan[k]) = Unwrap(kickoff_player)
             /\ IsSome(ball_owner) <=> kickoff_player' = None
             /\ IsSome(kickoff_player') /\ frame' = KickoffWalk - 1 => IsSome(ball_owner')]_vars
    /\ (IsSome(kickoff_player) ~> kickoff_player = None)

\* the kickoff player of computer-controlled team 1 has taken the ball while
\* team 0's human held Space, and the freeze is over
C34_KickoffTaken ==
    /\ state = "Play"
    /\ kickoff_player = None
    /\ ball_owner = Some(Entity(gen, 1))
    /\ teams[0].controls /\ ~teams[1].controls
    /\ keys = Space
    /\ ev.reset = FALSE
    /\ frame <= KickoffWalk

======================================================================
